---- MODULE Spec2Model ----
(***************************************************************************)
(* Verification model of the optimisation cores of the ProjetRO bundle:    *)
(*   - student/project assignment (Ahmed_Saad): the greedy MockSolver and  *)
(*     the StudentAssignmentSolver MILP formulation,                        *)
(*   - weighted vertex cover with conflicts (Amine-Jebari),                 *)
(*   - maximum flow (Abdelkader-Ammar),                                     *)
(*   - minimum-cost multi-modal flow (skeggo/TransportApp),                 *)
(*   - alloy blending (Ahmed-BenRejeb).                                     *)
(* The external MILP/LP engine is modelled as an ideal engine: it reports  *)
(* INFEASIBLE when no point satisfies the constraints it was given and     *)
(* otherwise returns, nondeterministically, any optimal point.             *)
(***************************************************************************)
EXTENDS Integers, Sequences, FiniteSets, TLC

VARIABLES
    students,             \* assignment: the list of Student records handed to solve
    projects,             \* assignment: the list of Project records handed to solve
    pc,                   \* assignment: position of the solve call
    sorted_students,      \* MockSolver.solve: sorted(students, key=id)
    idx,                  \* MockSolver.solve: position of the for loop over sorted_students
    assignments,          \* MockSolver.solve: local dict project id -> list of student ids
    student_assignments,  \* MockSolver.solve: local dict student id -> project id
    obj_val,              \* MockSolver.solve: local objective accumulator
    result,               \* the AssignmentResult returned by solve (NoResult before)
    table_gates,          \* cover: rows <<gate id text, cost text>> of MainWindow.table_gates
    table_wires,          \* cover: rows <<u, v>> of MainWindow.table_wires
    table_incomp,         \* cover: rows <<u, v>> of MainWindow.table_incomp
    worker,               \* cover: the OptimizationWorker (nodes, edges, incompatibilities, state)
    signal,               \* cover: the signal emitted by the worker and not yet handled
    btn_solve,            \* cover: MainWindow.btn_solve is enabled
    lbl_result,           \* cover: what MainWindow.lbl_result shows
    warning,              \* cover: the QMessageBox warning of the last run_optimization ("" for none)
    nodes,                \* max flow: the keys of MaxFlowGUI.nodes
    arcs,                 \* max flow: MaxFlowGUI.arcs, records from_node, to_node, capacity, flow
    source_combo,         \* max flow: current text of the source combo box
    sink_combo,           \* max flow: current text of the sink combo box
    result_label,         \* max flow: the value shown after "Maximum Flow: " (NoFlow before)
    flow_list,            \* max flow: the lines of flow_list, <<from, to, flow, capacity>>
    message,              \* max flow: the text of the last QMessageBox warning ("" for none)
    raised,               \* max flow: the exception that left a slot and ended the application
    hubs,                 \* transport: MainWindow.hubs, the list of hub names
    hub_arcs,             \* transport: MainWindow.arcs, the list of (origin, destination)
    demands,              \* transport: MainWindow.demands, dict hub -> net demand
    link_capacities,      \* transport: MainWindow.capacities, dict (origin, destination, mode) -> capacity
    costs,                \* transport: MainWindow.costs, dict (origin, destination, mode) -> unit cost
    hub_capacities,       \* transport: MainWindow.hub_capacities, dict hub -> max throughput
    model,                \* transport: MainWindow.model, the one MinCostFlowModel and its gp.Model
    workers,              \* transport: the OptimizationWorker threads started so far
    signals,              \* transport: finished/error signals emitted and not yet delivered
    status_label,         \* transport: text of MainWindow.status_label
    results_text,         \* transport: what MainWindow.results_text shows
    box,                  \* transport: the text of the last QMessageBox ("" for none)
    crashed,              \* transport: the process was aborted by Qt
    gurobi_available,     \* blending: GUROBI_AVAILABLE, set when optimization_model is imported
    materials_table,      \* blending: rows of cell texts of AlloyMainWindow.materials_table
    elements_table,       \* blending: rows of ElementSpecWidget.elements_table
    target_weight_spin,   \* blending: value of target_weight_spin
    max_impurities_spin,  \* blending: value of max_impurities_spin
    problem,              \* blending: AlloyMainWindow.problem
    optimization_thread,  \* blending: AlloyMainWindow.optimization_thread and its locals
    thread_signals,       \* blending: finished/error signals emitted and not yet delivered
    shown_result,         \* blending: AlloyMainWindow.result
    solve_btn,            \* blending: solve_btn is enabled
    stop_btn,             \* blending: stop_btn is enabled
    dialog,               \* blending: the text of the last QMessageBox ("" for none)
    json_file             \* blending: content of the file written by save_problem

assignVars == <<students, projects, pc, sorted_students, idx, assignments,
                student_assignments, obj_val, result>>

coverVars == <<table_gates, table_wires, table_incomp, worker, signal, btn_solve, lbl_result,
               warning>>

flowVars == <<nodes, arcs, source_combo, sink_combo, result_label, flow_list, message,
              raised>>

transportVars == <<hubs, hub_arcs, demands, link_capacities, costs, hub_capacities, model,
                   workers, signals, status_label, results_text, box, crashed>>

blendVars == <<gurobi_available, materials_table, elements_table, target_weight_spin,
               max_impurities_spin, problem, optimization_thread, thread_signals, shown_result,
               solve_btn, stop_btn, dialog, json_file>>

vars == <<assignVars, coverVars, flowVars, transportVars, blendVars>>

\* what the actions of one application leave alone: the state of the other applications
notAssignVars == <<coverVars, flowVars, transportVars, blendVars>>
notCoverVars == <<assignVars, flowVars, transportVars, blendVars>>
notFlowVars == <<assignVars, coverVars, transportVars, blendVars>>
notTransportVars == <<assignVars, coverVars, flowVars, blendVars>>
notBlendVars == <<assignVars, coverVars, flowVars, transportVars>>

-----------------------------------------------------------------------------
(* Bounds of the explored inputs *)

MaxStudents == 2
MaxCap == 2
MaxRows == 2
MaxArcs == 2
MaxSolves == 2
MaxMaterials == 2
MaxElements == 1
MaxPending == 2

-----------------------------------------------------------------------------
(* Generic helpers *)

Range(s) == {s[i] : i \in 1..Len(s)}

SeqsUpTo(S, n) == UNION {[1..m -> S] : m \in 0..n}

MinOf(S) == CHOOSE x \in S : \A y \in S : x <= y
MaxOf(S) == CHOOSE x \in S : \A y \in S : y <= x

\* index of the first element of a loop that satisfies its test, 0 for none
FirstIn(S) == IF S = {} THEN 0 ELSE MinOf(S)

RECURSIVE SumSeq(_)
SumSeq(s) == IF s = <<>> THEN 0 ELSE s[1] + SumSeq(Tail(s))

-----------------------------------------------------------------------------
(* Assignment family: data records *)

Student(id, preferences, incompatible_with) ==
    [id |-> id, preferences |-> preferences, incompatible_with |-> incompatible_with]

Project(id, capacity_min, capacity_max) ==
    [id |-> id, capacity_min |-> capacity_min, capacity_max |-> capacity_max]

NoResult == [status |-> "NONE"]

AssignmentResult(status, objective_value, asg, sasg) ==
    [status |-> status, objective_value |-> objective_value,
     assignments |-> asg, student_assignments |-> sasg]

\* s.preferences.get(pid, 0); a dict is modelled as its item list <<key, value>>
PrefGet(preferences, pid) ==
    LET I == {i \in 1..Len(preferences) : preferences[i][1] = pid}
    IN  IF I = {} THEN 0 ELSE preferences[MinOf(I)][2]

\* next((p for p in projects if p.id == pid), None): index of the first match, 0 for None
FindProject(projs, pid) == FirstIn({j \in 1..Len(projs) : projs[j].id = pid})

-----------------------------------------------------------------------------
(* MockSolver.solve *)

\* one insertion of a stable ascending sort on the id
InsertById(sorted, s) ==
    LET n == Cardinality({i \in 1..Len(sorted) : sorted[i].id <= s.id})
    IN  SubSeq(sorted, 1, n) \o <<s>> \o SubSeq(sorted, n + 1, Len(sorted))

RECURSIVE SortedById(_)
SortedById(ss) ==
    IF ss = <<>> THEN <<>>
    ELSE InsertById(SortedById(SubSeq(ss, 1, Len(ss) - 1)), ss[Len(ss)])

\* variant: the preferences sorted by ascending score (reverse=True left out)
InsertByScoreAscending(sorted, item) ==
    LET n == Cardinality({i \in 1..Len(sorted) : sorted[i][2] <= item[2]})
    IN  SubSeq(sorted, 1, n) \o <<item>> \o SubSeq(sorted, n + 1, Len(sorted))

\* one insertion of a stable descending sort on the score (sorted(..., reverse=True))
InsertByScore(sorted, item) ==
    LET n == Cardinality({i \in 1..Len(sorted) : sorted[i][2] >= item[2]})
    IN  SubSeq(sorted, 1, n) \o <<item>> \o SubSeq(sorted, n + 1, Len(sorted))

RECURSIVE SortedPrefs(_)
SortedPrefs(prefs) ==
    IF prefs = <<>> THEN <<>>
    ELSE InsertByScore(SortedPrefs(SubSeq(prefs, 1, Len(prefs) - 1)), prefs[Len(prefs)])

\* variant: the capacity test off by one (<= instead of <)
PrefHasRoomOffByOne(projs, asg, pid) ==
    LET j == FindProject(projs, pid)
    IN  j > 0 /\ Len(asg[pid]) <= projs[j].capacity_max

\* variant: the room left above the minimum capacity (a test that reads capacity_min)
PrefHasRoomAboveMin(projs, asg, pid) ==
    LET j == FindProject(projs, pid)
    IN  j > 0 /\ Len(asg[pid]) < projs[j].capacity_max - projs[j].capacity_min

\* the test of the preference loop: the project exists and has room
PrefHasRoom(projs, asg, pid) ==
    LET j == FindProject(projs, pid)
    IN  j > 0 /\ Len(asg[pid]) < projs[j].capacity_max

\* the preference loop: index in sorted_prefs of the first preference taken, 0 for none
FirstPrefWithRoom(sorted_prefs, projs, asg) ==
    FirstIn({i \in 1..Len(sorted_prefs) : PrefHasRoom(projs, asg, sorted_prefs[i][1])})

\* variant: no fallback loop
NoFallback(projs, asg) == 0

\* the fallback loop: index of the first project with room, 0 for none
FirstProjectWithRoom(projs, asg) ==
    FirstIn({j \in 1..Len(projs) : Len(asg[projs[j].id]) < projs[j].capacity_max})

\* the body of the loop over the students: what is decided for student s
MockChoice(s, projs, asg) ==
    LET sorted_prefs == SortedPrefs(s.preferences)
        i == FirstPrefWithRoom(sorted_prefs, projs, asg)
        j == FirstProjectWithRoom(projs, asg)
    IN  IF i > 0
        THEN [assigned |-> TRUE, pid |-> sorted_prefs[i][1], score |-> sorted_prefs[i][2]]
        ELSE IF j > 0
        THEN [assigned |-> TRUE, pid |-> projs[j].id, score |-> 0]
        ELSE [assigned |-> FALSE, pid |-> 0, score |-> 0]

\* the final test of MockSolver.solve
MockStatus(sasg, studs) ==
    IF Cardinality(DOMAIN sasg) = Len(studs) THEN "OPTIMAL (MOCK)" ELSE "INFEASIBLE (MOCK)"

MockStart ==
    /\ pc = "mock_ready"
    /\ assignments' = [pid \in {projects[j].id : j \in 1..Len(projects)} |-> <<>>]
    /\ student_assignments' = <<>>
    /\ obj_val' = 0
    /\ sorted_students' = SortedById(students)
    /\ idx' = 1
    /\ pc' = "mock_loop"
    /\ UNCHANGED <<students, projects, result, notAssignVars>>

MockStep ==
    /\ pc = "mock_loop"
    /\ idx <= Len(sorted_students)
    /\ LET s == sorted_students[idx]
           c == MockChoice(s, projects, assignments)
       IN  IF c.assigned
           THEN /\ assignments' = [assignments EXCEPT ![c.pid] = Append(@, s.id)]
                /\ student_assignments' = (s.id :> c.pid) @@ student_assignments
                /\ obj_val' = obj_val + c.score
           ELSE UNCHANGED <<assignments, student_assignments, obj_val>>
    /\ idx' = idx + 1
    /\ UNCHANGED <<students, projects, pc, sorted_students, result, notAssignVars>>

MockReturn ==
    /\ pc = "mock_loop"
    /\ idx > Len(sorted_students)
    /\ result' = AssignmentResult(MockStatus(student_assignments, students), obj_val,
                                  assignments, student_assignments)
    /\ pc' = "done"
    /\ UNCHANGED <<students, projects, sorted_students, idx, assignments,
                   student_assignments, obj_val, notAssignVars>>

-----------------------------------------------------------------------------
(* StudentAssignmentSolver.solve *)

\* the keys of the dict x of decision variables: x[s.id, p.id]
VarKeys(studs, projs) ==
    {<<studs[i].id, projs[j].id>> : i \in 1..Len(studs), j \in 1..Len(projs)}

\* the (student, project) pairs in the order of the nested loops over students and projects
LoopPairs(studs, projs) ==
    [k \in 1..(Len(studs) * Len(projs)) |->
        <<studs[((k - 1) \div Len(projs)) + 1], projs[((k - 1) % Len(projs)) + 1]>>]

\* the objective expression: sum of score * x[s.id, p.id], score = preferences.get(p.id, 0)
ObjExpr(X, studs, projs) ==
    LET lp == LoopPairs(studs, projs)
    IN  SumSeq([k \in 1..Len(lp) |->
                  PrefGet(lp[k][1].preferences, lp[k][2].id) * X[<<lp[k][1].id, lp[k][2].id>>]])

\* gp.quicksum(x[s.id, p.id] for p in projects)
StudentSum(X, s, projs) == SumSeq([j \in 1..Len(projs) |-> X[<<s.id, projs[j].id>>]])

\* gp.quicksum(x[s.id, p.id] for s in students)
AssignedCount(X, studs, p) == SumSeq([i \in 1..Len(studs) |-> X[<<studs[i].id, p.id>>]])

\* the (s1.id, s2_id) pairs in the order of the loops over students and incompatible_with
RECURSIVE IncompatLoop(_)
IncompatLoop(studs) ==
    IF studs = <<>> THEN <<>>
    ELSE [h \in 1..Len(studs[1].incompatible_with) |->
             <<studs[1].id, studs[1].incompatible_with[h]>>] \o IncompatLoop(Tail(studs))

SortedPair(a, b) == IF a <= b THEN <<a, b>> ELSE <<b, a>>

\* the pairs <<s1.id, s2.id>> that get incomp_ constraints: a pair already processed is
\* skipped, and so is one whose second student is not in the list
RECURSIVE IncompatConstrs(_, _, _)
IncompatConstrs(loop, processed_pairs, studs) ==
    IF loop = <<>> THEN {}
    ELSE LET a == loop[1][1]
             b == loop[1][2]
             pair == SortedPair(a, b)
         IN  IF pair \in processed_pairs
             THEN IncompatConstrs(Tail(loop), processed_pairs, studs)
             ELSE IF \E i \in 1..Len(studs) : studs[i].id = b
             THEN {<<a, b>>} \cup IncompatConstrs(Tail(loop), processed_pairs \cup {pair}, studs)
             ELSE IncompatConstrs(Tail(loop), processed_pairs, studs)

\* variant: the model without the incomp_ constraints
ModelConstraintsNoIncompat(X, studs, projs) ==
    /\ \A i \in 1..Len(studs) : StudentSum(X, studs[i], projs) = 1
    /\ \A j \in 1..Len(projs) :
          /\ AssignedCount(X, studs, projs[j]) >= projs[j].capacity_min
          /\ AssignedCount(X, studs, projs[j]) <= projs[j].capacity_max

\* the constraints added to the model
ModelConstraints(X, studs, projs) ==
    /\ \A i \in 1..Len(studs) : StudentSum(X, studs[i], projs) = 1
    /\ \A j \in 1..Len(projs) :
          /\ AssignedCount(X, studs, projs[j]) >= projs[j].capacity_min
          /\ AssignedCount(X, studs, projs[j]) <= projs[j].capacity_max
    /\ \A c \in IncompatConstrs(IncompatLoop(studs), {}, studs) :
          \A j \in 1..Len(projs) : X[<<c[1], projs[j].id>>] + X[<<c[2], projs[j].id>>] <= 1

\* the points of the binary variables that satisfy the model
FeasiblePoints(studs, projs) ==
    {X \in [VarKeys(studs, projs) -> {0, 1}] : ModelConstraints(X, studs, projs)}

\* m.optimize() with GRB.MAXIMIZE on an ideal engine: the optimal points
OptimalPoints(studs, projs) ==
    LET F == FeasiblePoints(studs, projs)
    IN  {X \in F : \A Y \in F : ObjExpr(Y, studs, projs) <= ObjExpr(X, studs, projs)}

\* the result loops: x[s.id, p.id].X > 0.5 appends s.id and records the project
RECURSIVE ExtractAssignments(_, _, _)
ExtractAssignments(lp, X, asg) ==
    IF lp = <<>> THEN asg
    ELSE LET s == lp[1][1]
             p == lp[1][2]
         IN  ExtractAssignments(Tail(lp), X,
                 IF X[<<s.id, p.id>>] = 1 THEN [asg EXCEPT ![p.id] = Append(@, s.id)] ELSE asg)

RECURSIVE ExtractStudentAssignments(_, _, _)
ExtractStudentAssignments(lp, X, sasg) ==
    IF lp = <<>> THEN sasg
    ELSE LET s == lp[1][1]
             p == lp[1][2]
         IN  ExtractStudentAssignments(Tail(lp), X,
                 IF X[<<s.id, p.id>>] = 1 THEN (s.id :> p.id) @@ sasg ELSE sasg)

EmptyResult(status) == AssignmentResult(status, 0, <<>>, <<>>)

\* what the gurobipy module does for this call: absent (gp is None), an ideal solve, a
\* solve cut by the time limit (status code 9), or a raised GurobiError
EngineOutcomes == {"none", "ideal", "time_limit", "error"}

\* StudentAssignmentSolver.solve when the engine does outcome for this call
StudentAssignmentSolve(outcome) ==
    /\ pc = "gurobi_ready"
    /\ \/ /\ outcome = "none"
          /\ result' = EmptyResult("ERROR: Gurobi not installed")
       \/ /\ outcome = "error"
          /\ result' = EmptyResult("Error: GurobiError")
       \/ /\ outcome = "time_limit"
          /\ result' = EmptyResult("Status Code: 9")
       \/ /\ outcome = "ideal"
          /\ FeasiblePoints(students, projects) = {}
          /\ result' = EmptyResult("INFEASIBLE")
       \/ /\ outcome = "ideal"
          /\ \E X \in OptimalPoints(students, projects) :
                result' = AssignmentResult("OPTIMAL", ObjExpr(X, students, projects),
                    ExtractAssignments(LoopPairs(students, projects), X,
                        [pid \in {projects[j].id : j \in 1..Len(projects)} |-> <<>>]),
                    ExtractStudentAssignments(LoopPairs(students, projects), X, <<>>))
    /\ pc' = "done"
    /\ UNCHANGED <<students, projects, sorted_students, idx, assignments,
                   student_assignments, obj_val, notAssignVars>>

GurobiSolve == \E outcome \in EngineOutcomes : StudentAssignmentSolve(outcome)

-----------------------------------------------------------------------------
(* Inputs of the assignment family *)

StudentIds == {1, 2}
ProjectIds == {101, 102}

\* preference dicts, in insertion order: none, one, two (both orders), a tie, and a
\* preference for a project (103) that is in no project list
PrefChoices ==
    { <<>>,
      << <<101, 2>> >>,
      << <<101, 2>>, <<102, 1>> >>,
      << <<101, 1>>, <<102, 2>> >>,
      << <<102, 1>>, <<101, 1>> >>,
      << <<103, 2>>, <<102, 1>> >> }

MockStudents == {Student(i, p, <<>>) : i \in StudentIds, p \in PrefChoices}
MockProjects == {Project(i, 0, c) : i \in ProjectIds, c \in 0..MaxCap}

\* tests/test_demo.py, demo_simple_scenario
DemoStudents ==
    << Student(1, << <<101, 10>>, <<102, 3>> >>, <<>>),
       Student(2, << <<101, 5>>, <<102, 8>> >>, <<>>),
       Student(3, << <<101, 7>>, <<102, 9>> >>, <<>>) >>
DemoProjects == << Project(101, 1, 2), Project(102, 1, 2) >>

InitLocals ==
    /\ sorted_students = <<>>
    /\ idx = 0
    /\ assignments = <<>>
    /\ student_assignments = <<>>
    /\ obj_val = 0
    /\ result = NoResult

\* inputs with incompatibilities (of the other student, of oneself, of a student that
\* may be absent) and with minimum capacities
ExactPrefChoices ==
    { << <<101, 2>>, <<102, 1>> >>,
      << <<102, 2>> >> }
IncompatChoices == {<<>>} \cup {<<i>> : i \in StudentIds}

ExactStudents ==
    {Student(i, p, inc) : i \in StudentIds, p \in ExactPrefChoices, inc \in IncompatChoices}
ExactProjects == {Project(i, lo, hi) : i \in ProjectIds, lo \in 0..1, hi \in 1..MaxCap}

InitMock ==
    /\ \/ /\ students \in SeqsUpTo(MockStudents, MaxStudents)
          /\ projects \in SeqsUpTo(MockProjects, Cardinality(ProjectIds))
       \/ /\ students \in SeqsUpTo(ExactStudents, MaxStudents)
          /\ projects \in SeqsUpTo(ExactProjects, Cardinality(ProjectIds))
       \/ /\ students = DemoStudents
          /\ projects = DemoProjects
    /\ pc = "mock_ready"
    /\ InitLocals

NextMock == MockStart \/ MockStep \/ MockReturn


\* the exact solver is run on the inputs with incompatibilities and minimum capacities
InitExact ==
    /\ students \in SeqsUpTo(ExactStudents, MaxStudents)
    /\ projects \in SeqsUpTo(ExactProjects, Cardinality(ProjectIds))
    /\ pc = "gurobi_ready"
    /\ InitLocals

NextExact == GurobiSolve


-----------------------------------------------------------------------------
(* Weighted vertex cover with conflicts: Amine-Jebari/main.py *)

\* str.strip() on the cell texts that occur: "A " is the only one with blanks around it
Strip(txt) == IF txt = "A " THEN "A" ELSE txt

\* float(text): the numeric cell texts and their values; any other text raises ValueError
IsNumeric(txt) == txt \in {"-1", "0", "1", "2", "3", "5", "6", "8", "10", "50", "100"}
Float(txt) ==
    CASE txt = "-1" -> -1 [] txt = "0" -> 0 [] txt = "1" -> 1 [] txt = "2" -> 2
      [] txt = "3" -> 3 [] txt = "5" -> 5 [] txt = "6" -> 6 [] txt = "8" -> 8
      [] txt = "10" -> 10 [] txt = "50" -> 50 [] txt = "100" -> 100

\* the loop over table_gates: a row with an empty id is skipped before its cost is read
RECURSIVE ReadGates(_)
ReadGates(rows) ==
    IF rows = <<>> THEN [ok |-> TRUE, nodes |-> <<>>]
    ELSE LET gid == Strip(rows[1][1])
             rest == ReadGates(Tail(rows))
         IN  IF gid = "" THEN rest
             ELSE IF ~IsNumeric(rows[1][2]) THEN [ok |-> FALSE, nodes |-> <<>>]
             ELSE IF ~rest.ok THEN rest
             ELSE [ok |-> TRUE,
                   nodes |-> <<[id |-> gid, cost |-> Float(rows[1][2])]>> \o rest.nodes]

\* the loops over table_wires and table_incomp: a row with an empty cell is skipped, a row
\* naming a gate that is not in gate_set stops the reading
RECURSIVE ReadPairs(_, _)
ReadPairs(rows, gate_set) ==
    IF rows = <<>> THEN [ok |-> TRUE, pairs |-> <<>>]
    ELSE LET u == Strip(rows[1][1])
             v == Strip(rows[1][2])
             rest == ReadPairs(Tail(rows), gate_set)
         IN  IF u = "" \/ v = "" THEN rest
             ELSE IF u \notin gate_set \/ v \notin gate_set THEN [ok |-> FALSE, pairs |-> <<>>]
             ELSE IF ~rest.ok THEN rest
             ELSE [ok |-> TRUE, pairs |-> << <<u, v>> >> \o rest.pairs]

Rejected(text) == [ok |-> FALSE, warning |-> text]

get_data_from_ui(gates, wires, incomp) ==
    LET g == ReadGates(gates)
        gate_ids == [i \in 1..Len(g.nodes) |-> g.nodes[i].id]
        gate_set == Range(gate_ids)
        e == ReadPairs(wires, gate_set)
        c == ReadPairs(incomp, gate_set)
    IN  IF ~g.ok THEN Rejected("couts non numeriques")
        ELSE IF Cardinality(gate_set) # Len(gate_ids) THEN Rejected("Gate IDs dupliques")
        ELSE IF ~e.ok THEN Rejected("fil: porte inexistante")
        ELSE IF ~c.ok THEN Rejected("conflit: porte inexistante")
        ELSE [ok |-> TRUE, nodes |-> g.nodes, edges |-> e.pairs, incompatibilities |-> c.pairs]

NoWorker == [state |-> "none"]
NoSignal == [kind |-> "none"]

\* MainWindow.run_optimization, from a click on the enabled button
run_optimization ==
    /\ btn_solve
    /\ LET data == get_data_from_ui(table_gates, table_wires, table_incomp)
       IN  IF ~data.ok
           THEN /\ warning' = data.warning
                /\ UNCHANGED <<worker, btn_solve, lbl_result>>
           ELSE /\ warning' = ""
                /\ btn_solve' = FALSE
                /\ lbl_result' = <<"Status: Calcul en cours...">>
                /\ worker' = [state |-> "started", nodes |-> data.nodes, edges |-> data.edges,
                              incompatibilities |-> data.incompatibilities]
    /\ UNCHANGED <<table_gates, table_wires, table_incomp, signal, notCoverVars>>

\* gp.quicksum(n["cost"] * x[n["id"]] for n in self.nodes)
CoverCost(X, ns) == SumSeq([i \in 1..Len(ns) |-> ns[i].cost * X[ns[i].id]])

\* variant: the edge constraints left out
NoCoverConstr(X, edges) == TRUE

\* Constraint 1: x[u] + x[v] >= 1 for every edge
CoverConstr(X, edges) == \A i \in 1..Len(edges) : X[edges[i][1]] + X[edges[i][2]] >= 1

\* Constraint 2: x[u] + x[v] <= 1 for every incompatibility whose ends are both variables
ConflictConstr(X, incs) ==
    \A i \in 1..Len(incs) :
        (incs[i][1] \in DOMAIN X /\ incs[i][2] \in DOMAIN X) => X[incs[i][1]] + X[incs[i][2]] <= 1

CoverFeasible(w) ==
    {X \in [{w.nodes[i].id : i \in 1..Len(w.nodes)} -> {0, 1}] :
        CoverConstr(X, w.edges) /\ ConflictConstr(X, w.incompatibilities)}

\* variant: the objective maximized instead of minimized
CoverMaximal(w) ==
    LET F == CoverFeasible(w)
    IN  {X \in F : \A Y \in F : CoverCost(X, w.nodes) >= CoverCost(Y, w.nodes)}

\* m.optimize() with GRB.MINIMIZE on an ideal engine: the optimal points
CoverOptimal(w) ==
    LET F == CoverFeasible(w)
    IN  {X \in F : \A Y \in F : CoverCost(X, w.nodes) <= CoverCost(Y, w.nodes)}

\* [gid for gid in gate_ids if x[gid].X > 0.5]
RECURSIVE Selected(_, _)
Selected(ns, X) ==
    IF ns = <<>> THEN <<>>
    ELSE (IF X[ns[1].id] = 1 THEN <<ns[1].id>> ELSE <<>>) \o Selected(Tail(ns), X)

\* OptimizationWorker.run, on the worker thread
WorkerRun ==
    /\ worker.state = "started"
    /\ \/ \E X \in CoverOptimal(worker) :
             signal' = [kind |-> "result_ready", selected |-> Selected(worker.nodes, X),
                        objVal |-> CoverCost(X, worker.nodes)]
       \/ /\ CoverFeasible(worker) = {}
          /\ signal' = [kind |-> "error_occurred", msg |-> "Infeasible"]
       \/ signal' = [kind |-> "error_occurred", msg |-> "No optimal solution found"]
       \/ signal' = [kind |-> "error_occurred", msg |-> "Gurobi Error"]
    /\ worker' = [worker EXCEPT !.state = "finished"]
    /\ UNCHANGED <<table_gates, table_wires, table_incomp, btn_solve, lbl_result, warning,
                   notCoverVars>>

handle_result ==
    /\ signal.kind = "result_ready"
    /\ btn_solve' = TRUE
    /\ lbl_result' = <<"Solution Optimale Trouvee", signal.objVal, signal.selected>>
    /\ signal' = NoSignal
    /\ UNCHANGED <<table_gates, table_wires, table_incomp, worker, warning, notCoverVars>>

handle_error ==
    /\ signal.kind = "error_occurred"
    /\ btn_solve' = TRUE
    /\ lbl_result' = <<"Erreur", signal.msg>>
    /\ signal' = NoSignal
    /\ UNCHANGED <<table_gates, table_wires, table_incomp, worker, warning, notCoverVars>>

\* the rows the tables are filled from
GateRows ==
    { <<"A", "10">>, <<"B", "10">>, <<"C", "5">>, <<"A ", "5">>, <<"B", "x">>, <<"", "x">> }
WireRows == { <<"A", "B">>, <<"B", "C">>, <<"C", "A">>, <<"A", "A">>, <<"B", "">> }
IncompRows == { <<"A", "B">>, <<"A", "C">>, <<"B", "B">>, <<"A", "">> }

\* MainWindow.load_demo_data
DemoGates == << <<"A", "10">>, <<"B", "10">>, <<"C", "5">> >>
DemoWires == << <<"A", "B">>, <<"B", "C">>, <<"C", "A">> >>

\* conflict rows added to the demo circuit: every pair of its gates is in conflict, so that
\* at most one gate can be chosen while each of the three wires needs one of its ends
DemoConflicts == << <<"A", "B">>, <<"B", "C">>, <<"A", "C">> >>

CoverIdle ==
    /\ table_gates = <<>>
    /\ table_wires = <<>>
    /\ table_incomp = <<>>
    /\ worker = NoWorker
    /\ signal = NoSignal
    /\ btn_solve = TRUE
    /\ lbl_result = <<"Status: Pret">>
    /\ warning = ""

InitCover ==
    /\ \/ /\ table_gates \in SeqsUpTo(GateRows, MaxRows)
          /\ table_wires \in SeqsUpTo(WireRows, MaxRows)
          /\ table_incomp \in {<<>>} \cup {<<r>> : r \in IncompRows}
       \/ /\ table_gates = DemoGates
          /\ table_wires = DemoWires
          /\ table_incomp \in {<<>>, DemoConflicts}
    /\ worker = NoWorker
    /\ signal = NoSignal
    /\ btn_solve = TRUE
    /\ lbl_result = <<"Status: Pret">>
    /\ warning = ""

NextCover == run_optimization \/ WorkerRun \/ handle_result \/ handle_error

-----------------------------------------------------------------------------
(* Maximum flow: Abdelkader-Ammar/Probleme17.py *)

Arc(from_node, to_node, capacity) ==
    [from_node |-> from_node, to_node |-> to_node, capacity |-> capacity, flow |-> 0]

NoFlow == <<>>

\* MaxFlowGUI.add_node with the text name in node_input
add_node(name) ==
    /\ raised = ""
    /\ IF Strip(name) = "" THEN message' = "Node name cannot be empty" /\ nodes' = nodes
       ELSE IF Strip(name) \in nodes THEN message' = "Node already exists" /\ nodes' = nodes
       ELSE message' = "" /\ nodes' = nodes \cup {Strip(name)}
    /\ UNCHANGED <<arcs, source_combo, sink_combo, result_label, flow_list, raised,
                   notFlowVars>>

\* MaxFlowGUI.add_arc with the texts of from_node_input, to_node_input and capacity_input
add_arc(from_name, to_name, capacity_text) ==
    /\ raised = ""
    /\ Len(arcs) < MaxArcs
    /\ IF ~IsNumeric(capacity_text)
       THEN message' = "Capacity must be a number" /\ arcs' = arcs
       ELSE IF Strip(from_name) \notin nodes \/ Strip(to_name) \notin nodes
       THEN message' = "Both nodes must exist" /\ arcs' = arcs
       ELSE /\ message' = ""
            /\ arcs' = Append(arcs, Arc(Strip(from_name), Strip(to_name), Float(capacity_text)))
    /\ UNCHANGED <<nodes, source_combo, sink_combo, result_label, flow_list, raised,
                   notFlowVars>>

\* the user picks an item of the source combo box
select_source(item) ==
    /\ raised = ""
    /\ item \in nodes \cup {"Select source"}
    /\ source_combo' = item
    /\ UNCHANGED <<nodes, arcs, sink_combo, result_label, flow_list, message, raised,
                   notFlowVars>>

\* the user picks an item of the sink combo box
select_sink(item) ==
    /\ raised = ""
    /\ item \in nodes \cup {"Select sink"}
    /\ sink_combo' = item
    /\ UNCHANGED <<nodes, arcs, source_combo, result_label, flow_list, message, raised,
                   notFlowVars>>

\* capacities = {(arc.from_node, arc.to_node): arc.capacity for arc in self.arcs}: the
\* last arc between two nodes decides the capacity of the key
Capacities(as) ==
    [key \in {<<as[i].from_node, as[i].to_node>> : i \in 1..Len(as)} |->
        LET last == CHOOSE i \in 1..Len(as) :
                        /\ <<as[i].from_node, as[i].to_node>> = key
                        /\ \A h \in (i + 1)..Len(as) : <<as[h].from_node, as[h].to_node>> # key
        IN  as[last].capacity]

RECURSIVE SumOver(_, _)
SumOver(f, S) ==
    IF S = {} THEN 0
    ELSE LET k == CHOOSE x \in S : TRUE IN f[k] + SumOver(f, S \ {k})

\* sum(f[i, j] for (i, j) in capacities if j == k)
Inflow(f, k) == SumOver(f, {key \in DOMAIN f : key[2] = k})

\* sum(f[i, j] for (i, j) in capacities if i == k)
Outflow(f, k) == SumOver(f, {key \in DOMAIN f : key[1] = k})

\* the variables f[i, j] with lb = 0 and ub = cap, and the conservation constraints; the
\* continuous flows are explored on the integer grid
FlowFeasible(caps, ns, source, sink) ==
    {f \in [DOMAIN caps -> 0..MaxOf({caps[key] : key \in DOMAIN caps} \cup {0})] :
        /\ \A key \in DOMAIN caps : f[key] <= caps[key]
        /\ \A k \in ns \ {source, sink} : Inflow(f, k) = Outflow(f, k)}

\* m.optimize() with GRB.MAXIMIZE on an ideal engine: the optimal points
FlowOptimal(caps, ns, source, sink) ==
    LET F == FlowFeasible(caps, ns, source, sink)
    IN  {f \in F : \A g \in F : Outflow(g, source) <= Outflow(f, source)}

\* MaxFlowGUI.solve_max_flow. The engine calls (Model, addVar, setObjective, addConstr,
\* optimize) are not inside a try: an exception of the engine leaves the slot, and the
\* application ends.
solve_max_flow ==
    /\ raised = ""
    /\ IF nodes = {} \/ arcs = <<>>
       THEN /\ message' = "Add nodes and arcs first"
            /\ UNCHANGED <<arcs, result_label, flow_list, raised>>
       ELSE IF source_combo = "Select source" \/ sink_combo = "Select sink"
       THEN /\ message' = "Select valid source and sink"
            /\ UNCHANGED <<arcs, result_label, flow_list, raised>>
       ELSE /\ message' = ""
            /\ \/ /\ \E f \in FlowOptimal(Capacities(arcs), nodes, source_combo, sink_combo) :
                        /\ result_label' = <<Outflow(f, source_combo)>>
                        /\ arcs' = [i \in 1..Len(arcs) |->
                                       [arcs[i] EXCEPT
                                           !.flow = f[<<arcs[i].from_node, arcs[i].to_node>>]]]
                        /\ flow_list' = [i \in 1..Len(arcs) |->
                                           <<arcs[i].from_node, arcs[i].to_node,
                                             f[<<arcs[i].from_node, arcs[i].to_node>>],
                                             arcs[i].capacity>>]
                  /\ UNCHANGED raised
               \/ /\ raised' = "GurobiError"
                  /\ UNCHANGED <<arcs, result_label, flow_list>>
    /\ UNCHANGED <<nodes, source_combo, sink_combo, notFlowVars>>

NodeNames == {"s", "a", "t"}
NodeTexts == NodeNames \cup {""}
CapacityTexts == {"1", "2", "x"}

FlowIdle ==
    /\ nodes = {}
    /\ arcs = <<>>
    /\ source_combo = "Select source"
    /\ sink_combo = "Select sink"
    /\ result_label = NoFlow
    /\ flow_list = <<>>
    /\ message = ""
    /\ raised = ""

InitFlow == FlowIdle

NextFlow ==
    \/ \E name \in NodeTexts : add_node(name)
    \/ \E from_name, to_name \in NodeTexts, capacity_text \in CapacityTexts :
          add_arc(from_name, to_name, capacity_text)
    \/ \E item \in NodeNames \cup {"Select source"} : select_source(item)
    \/ \E item \in NodeNames \cup {"Select sink"} : select_sink(item)
    \/ solve_max_flow

-----------------------------------------------------------------------------
(* Multi-modal minimum cost flow: skeggo/TransportApp *)

\* MainWindow.modes
modes == <<"Train", "Bus", "Flight">>

\* the throughput given to a hub whose capacity field is left empty
DefaultHubCap == 10000

\* d.get(key, default)
DictGet(d, key, default) == IF key \in DOMAIN d THEN d[key] ELSE default

\* the objects named by the data dict of run_optimization. The dict holds references, and
\* set_data stores the same references in the model: reading model.hubs, model.arcs, ...
\* reads the lists and dicts of the window as they are at that moment
LiveData ==
    [hubs |-> hubs, modes |-> modes, arcs |-> hub_arcs, demands |-> demands,
     capacities |-> link_capacities, costs |-> costs, hub_capacities |-> hub_capacities]

\* the keys of self.flow: one variable per arc and mode
FlowKeys(d) == {<<a[1], a[2], d.modes[m]>> : a \in Range(d.arcs), m \in 1..Len(d.modes)}

\* the terms of "for j in self.hubs if (i, j) in self.arcs for k in self.modes"
OutTerms(d, i) ==
    {tm \in (1..Len(d.hubs)) \X (1..Len(d.modes)) : <<i, d.hubs[tm[1]]>> \in Range(d.arcs)}

\* the terms of "for j in self.hubs if (j, i) in self.arcs for k in self.modes"
InTerms(d, i) ==
    {tm \in (1..Len(d.hubs)) \X (1..Len(d.modes)) : <<d.hubs[tm[1]], i>> \in Range(d.arcs)}

HubOutflow(X, d, i) ==
    SumOver([tm \in OutTerms(d, i) |-> X[<<i, d.hubs[tm[1]], d.modes[tm[2]]>>]], OutTerms(d, i))

HubInflow(X, d, i) ==
    SumOver([tm \in InTerms(d, i) |-> X[<<d.hubs[tm[1]], i, d.modes[tm[2]]>>]], InTerms(d, i))

\* Constraint 1: outflow - inflow == self.demands.get(i, 0) for every hub
BalanceConstr(X, d) ==
    \A h \in 1..Len(d.hubs) :
        HubOutflow(X, d, d.hubs[h]) - HubInflow(X, d, d.hubs[h]) = DictGet(d.demands, d.hubs[h], 0)

\* Constraint 2: flow[i, j, k] <= self.capacities.get((i, j, k), 0)
LinkCapConstr(X, d) == \A key \in FlowKeys(d) : X[key] <= DictGet(d.capacities, key, 0)

\* Constraint 3: total inflow <= self.hub_capacities[i] for the hubs that have one
HubCapConstr(X, d) ==
    \A h \in 1..Len(d.hubs) :
        d.hubs[h] \in DOMAIN d.hub_capacities =>
            HubInflow(X, d, d.hubs[h]) <= d.hub_capacities[d.hubs[h]]

\* the integer points with lb = 0 that respect the link capacities
RECURSIVE FlowPoints(_, _)
FlowPoints(keys, d) ==
    IF keys = {} THEN {<<>>}
    ELSE LET key == CHOOSE x \in keys : TRUE
         IN  {(key :> v) @@ X : v \in 0..DictGet(d.capacities, key, 0),
                                X \in FlowPoints(keys \ {key}, d)}

McfFeasible(d) ==
    {X \in FlowPoints(FlowKeys(d), d) :
        BalanceConstr(X, d) /\ LinkCapConstr(X, d) /\ HubCapConstr(X, d)}

\* gp.quicksum(self.costs.get((i, j, k), 0) * self.flow[i, j, k] ...)
McfCost(X, d) == SumOver([key \in FlowKeys(d) |-> DictGet(d.costs, key, 0) * X[key]], FlowKeys(d))

\* self.model.optimize() with GRB.MINIMIZE on an ideal engine: the optimal points
McfOptimal(d) ==
    LET F == McfFeasible(d)
    IN  {X \in F : \A Y \in F : McfCost(X, d) <= McfCost(Y, d)}

\* the MinCostFlowModel made by MainWindow.__init__: nothing built yet. stale_ok tells
\* whether the variables and constraints left in the gp.Model by the earlier build_model
\* calls (Model.reset() discards the solution, not the constraints) can be satisfied
NewModel == [built |-> FALSE, data |-> <<>>, stale_ok |-> TRUE]

\* MinCostFlowModel.build_model on the data the model fields refer to
build_model(m, d) ==
    [built |-> TRUE, data |-> d,
     stale_ok |-> m.stale_ok /\ (m.built => McfFeasible(m.data) # {})]

\* the result dict of the OPTIMAL branch: the flows with var.x > 0
OptimalResult(X, d) ==
    [status |-> "Optimal", objective |-> McfCost(X, d),
     flows |-> [key \in {q \in DOMAIN X : X[q] > 0} |-> X[key]]]

\* MinCostFlowModel.solve: the results it can return
solve(m) ==
    (IF m.stale_ok /\ McfFeasible(m.data) # {}
     THEN {OptimalResult(X, m.data) : X \in McfOptimal(m.data)}
     ELSE {[status |-> "Not Optimal", code |-> "INFEASIBLE"]})
    \cup {[status |-> "Error", message |-> "GurobiError"]}

\* MainWindow.add_hub with the texts of hub_name_input, demand_input and hub_cap_input
add_hub(name_text, demand_text, cap_text) ==
    /\ ~crashed
    /\ IF ~IsNumeric(demand_text) \/ (cap_text # "" /\ ~IsNumeric(cap_text))
       THEN /\ box' = "Demand and Capacity must be numbers."
            /\ UNCHANGED <<hubs, demands, hub_capacities>>
       ELSE IF Strip(name_text) = ""
       THEN box' = "" /\ UNCHANGED <<hubs, demands, hub_capacities>>
       ELSE IF Strip(name_text) \in Range(hubs)
       THEN /\ box' = "Hub already exists."
            /\ UNCHANGED <<hubs, demands, hub_capacities>>
       ELSE /\ hubs' = Append(hubs, Strip(name_text))
            /\ demands' = (Strip(name_text) :> Float(demand_text)) @@ demands
            /\ hub_capacities' =
                  (Strip(name_text) :> (IF cap_text = "" THEN DefaultHubCap ELSE Float(cap_text)))
                      @@ hub_capacities
            /\ box' = ""
    /\ UNCHANGED <<hub_arcs, link_capacities, costs, model, workers, signals, status_label,
                   results_text, crashed, notTransportVars>>

\* MainWindow.add_arc with the current texts of origin_combo, dest_combo and mode_combo and
\* the texts of cost_input and link_cap_input; the origin combo is left on its first item
add_route(u, v, mode, cost_text, cap_text) ==
    /\ ~crashed
    /\ u \in Range(hubs) /\ v \in Range(hubs)
    /\ IF u = v
       THEN /\ box' = "Origin and Destination cannot be the same."
            /\ UNCHANGED <<hub_arcs, costs, link_capacities>>
       ELSE IF ~IsNumeric(cost_text) \/ ~IsNumeric(cap_text)
       THEN /\ box' = "Cost and Capacity must be numbers."
            /\ UNCHANGED <<hub_arcs, costs, link_capacities>>
       ELSE /\ hub_arcs' = IF <<u, v>> \in Range(hub_arcs) THEN hub_arcs
                           ELSE Append(hub_arcs, <<u, v>>)
            /\ costs' = (<<u, v, mode>> :> Float(cost_text)) @@ costs
            /\ link_capacities' = (<<u, v, mode>> :> Float(cap_text)) @@ link_capacities
            /\ box' = ""
    /\ UNCHANGED <<hubs, demands, hub_capacities, model, workers, signals, status_label,
                   results_text, crashed, notTransportVars>>

\* the model instance handed to the n-th worker: always self.model
WorkerModel(n) == "self.model"

\* MainWindow.run_optimization. Rebinding self.worker drops the last reference to the
\* previous QThread; when that thread is still running Qt may abort the process
\* ("QThread: Destroyed while thread is still running") or the thread may live on
run_transport_optimization ==
    /\ ~crashed
    /\ Len(workers) < MaxSolves
    /\ status_label' = "Solving... Please wait."
    /\ \/ /\ workers' = Append(workers, [pc |-> "started", model |-> WorkerModel(Len(workers) + 1),
                                         requested |-> LiveData])
          /\ crashed' = crashed
       \/ /\ workers # <<>>
          /\ workers[Len(workers)].pc # "finished"
          /\ crashed' = TRUE
          /\ workers' = workers
    /\ UNCHANGED <<hubs, hub_arcs, demands, link_capacities, costs, hub_capacities, model,
                   signals, results_text, box, notTransportVars>>

\* OptimizationWorker.run up to the return of build_model: set_data, then build_model; an
\* exception of the engine leaves run through "except Exception" as an error signal
WorkerBuild(w) ==
    /\ ~crashed
    /\ workers[w].pc = "started"
    /\ \/ /\ model' = build_model(model, LiveData)
          /\ workers' = [workers EXCEPT ![w].pc = "built"]
          /\ signals' = signals
       \/ /\ signals' = Append(signals, [kind |-> "error", msg |-> "GurobiError"])
          /\ workers' = [workers EXCEPT ![w].pc = "finished"]
          /\ model' = model
    /\ UNCHANGED <<hubs, hub_arcs, demands, link_capacities, costs, hub_capacities,
                   status_label, results_text, box, crashed, notTransportVars>>

\* OptimizationWorker.run from self.model.solve() to self.finished.emit(result)
WorkerSolve(w) ==
    /\ ~crashed
    /\ workers[w].pc = "built"
    /\ \E res \in solve(model) :
          signals' = Append(signals, [kind |-> "finished", result |-> res])
    /\ workers' = [workers EXCEPT ![w].pc = "finished"]
    /\ UNCHANGED <<hubs, hub_arcs, demands, link_capacities, costs, hub_capacities, model,
                   status_label, results_text, box, crashed, notTransportVars>>

RemoveAt(s, i) == SubSeq(s, 1, i - 1) \o SubSeq(s, i + 1, Len(s))

\* MainWindow.on_optimization_finished, the slot of the finished signal
on_optimization_finished(i) ==
    /\ ~crashed
    /\ signals[i].kind = "finished"
    /\ LET res == signals[i].result
       IN  /\ status_label' = <<"Status", res.status>>
           /\ results_text' =
                 IF res.status = "Optimal" THEN <<"Optimal Total Cost", res.objective, res.flows>>
                 ELSE <<"No optimal solution found. Status",
                        IF "code" \in DOMAIN res THEN res.code ELSE "Unknown">>
    /\ signals' = RemoveAt(signals, i)
    /\ UNCHANGED <<hubs, hub_arcs, demands, link_capacities, costs, hub_capacities, model,
                   workers, box, crashed, notTransportVars>>

\* MainWindow.on_optimization_error, the slot of the error signal
on_optimization_error(i) ==
    /\ ~crashed
    /\ signals[i].kind = "error"
    /\ status_label' = "Error"
    /\ box' = signals[i].msg
    /\ signals' = RemoveAt(signals, i)
    /\ UNCHANGED <<hubs, hub_arcs, demands, link_capacities, costs, hub_capacities, model,
                   workers, results_text, crashed, notTransportVars>>

\* the texts typed by the user in the hub form: a hub P supplying one passenger, a hub M
\* demanding one (with a throughput of one passenger or none), a row without name and a
\* row whose demand is not a number
HubTexts ==
    { <<"P", "1", "">>, <<"M", "-1", "">>, <<"M", "-1", "1">>, <<"", "1", "">>, <<"P", "x", "">> }

\* the mode, cost and capacity typed in the route form
RouteTexts == { <<"Train", "1", "1">>, <<"Bus", "2", "1">>, <<"Bus", "2", "x">> }

TransportIdle ==
    /\ hubs = <<>>
    /\ hub_arcs = <<>>
    /\ demands = <<>>
    /\ link_capacities = <<>>
    /\ costs = <<>>
    /\ hub_capacities = <<>>
    /\ model = NewModel
    /\ workers = <<>>
    /\ signals = <<>>
    /\ status_label = "Ready"
    /\ results_text = <<>>
    /\ box = ""
    /\ crashed = FALSE

NextTransport ==
    \/ \E h \in HubTexts : add_hub(h[1], h[2], h[3])
    \/ \E v \in Range(hubs), r \in RouteTexts : add_route(hubs[1], v, r[1], r[2], r[3])
    \/ run_transport_optimization
    \/ \E w \in 1..Len(workers) : WorkerBuild(w)
    \/ \E w \in 1..Len(workers) : WorkerSolve(w)
    \/ \E i \in 1..Len(signals) : on_optimization_finished(i)
    \/ \E i \in 1..Len(signals) : on_optimization_error(i)

-----------------------------------------------------------------------------
(* Alloy blending: Ahmed-BenRejeb/src/models/data_model.py *)

\* an Optional value is <<>> for None and <<v>> for the value v
None == <<>>
Some(v) == <<v>>

\* numbers are integers: weights in kg, percentages in percent, densities in tenths of g/cm3
DefaultDensity == 78
DefaultPurity == 100
DefaultMaxImpurities == 2

Element(symbol, name, min_percent, max_percent, target_percent) ==
    [symbol |-> symbol, name |-> name, min_percent |-> min_percent,
     max_percent |-> max_percent, target_percent |-> target_percent]

RawMaterial(name, cost_per_kg, availability, composition, density, purity) ==
    [name |-> name, cost_per_kg |-> cost_per_kg, availability |-> availability,
     composition |-> composition, density |-> density, purity |-> purity]

\* self.composition.get(element_symbol, 0.0)
get_element_content(material, element_symbol) ==
    IF element_symbol \in DOMAIN material.composition
    THEN material.composition[element_symbol] ELSE 0

AlloySpecification(name, target_weight, elements, max_impurities) ==
    [name |-> name, target_weight |-> target_weight, elements |-> elements,
     max_impurities |-> max_impurities, min_hardness |-> None, max_hardness |-> None,
     melting_point_min |-> None, melting_point_max |-> None]

BlendingProblem(name, raw_materials, alloy_spec) ==
    [name |-> name, raw_materials |-> raw_materials, alloy_spec |-> alloy_spec,
     additional_constraints |-> <<>>]

\* BlendingProblem.validate: the list of error messages
validate(p) ==
    (IF p.alloy_spec.target_weight <= 0 THEN <<"Le poids cible doit etre positif">> ELSE <<>>)
    \o (IF p.raw_materials = <<>> THEN <<"Au moins une matiere premiere est requise">> ELSE <<>>)
    \o (IF p.alloy_spec.elements = <<>> THEN <<"Au moins un element doit etre specifie">> ELSE <<>>)
    \o (IF \E i \in 1..Len(p.alloy_spec.elements) :
              p.alloy_spec.elements[i].min_percent > p.alloy_spec.elements[i].max_percent
        THEN <<"Pourcentage minimum superieur au maximum">> ELSE <<>>)

\* BlendingProblem.get_all_elements, as a set
get_all_elements(p) ==
    {p.alloy_spec.elements[i].symbol : i \in 1..Len(p.alloy_spec.elements)}
    \cup UNION {DOMAIN p.raw_materials[i].composition : i \in 1..Len(p.raw_materials)}

\* JSON values as json.dump writes them and json.load reads them
JNull == [t |-> "null"]
JNumber(v) == [t |-> "number", v |-> v]
JString(v) == [t |-> "string", v |-> v]
JArray(v) == [t |-> "array", v |-> v]
JObject(v) == [t |-> "object", v |-> v]

\* json.dump of a float-or-None field, and json.load of it
DumpOptional(o) == IF o = None THEN JNull ELSE JNumber(o[1])
LoadOptional(j) == IF j.t = "null" THEN None ELSE Some(j.v)

\* d.get(key): None when the key is absent
GetOptional(obj, key) == IF key \in DOMAIN obj.v THEN LoadOptional(obj.v[key]) ELSE None

\* d.get(key, default) of a number
GetNumber(obj, key, default) == IF key \in DOMAIN obj.v THEN obj.v[key].v ELSE default

\* variant: the element written without its target
ElementToJsonWithoutTarget(e) ==
    JObject([symbol |-> JString(e.symbol), name |-> JString(e.name),
             min_percent |-> JNumber(e.min_percent), max_percent |-> JNumber(e.max_percent)])

\* save_to_json: the dict written for one element
ElementToJson(e) ==
    JObject([symbol |-> JString(e.symbol), name |-> JString(e.name),
             min_percent |-> JNumber(e.min_percent), max_percent |-> JNumber(e.max_percent),
             target_percent |-> DumpOptional(e.target_percent)])

\* save_to_json: the dict written for one raw material
MaterialToJson(rm) ==
    JObject([name |-> JString(rm.name), cost_per_kg |-> JNumber(rm.cost_per_kg),
             availability |-> JNumber(rm.availability),
             composition |-> JObject([sym \in DOMAIN rm.composition |->
                                          JNumber(rm.composition[sym])]),
             density |-> JNumber(rm.density), purity |-> JNumber(rm.purity)])

\* BlendingProblem.save_to_json: the content of the file
save_to_json(p) ==
    JObject([name |-> JString(p.name),
             raw_materials |-> JArray([i \in 1..Len(p.raw_materials) |->
                                          MaterialToJson(p.raw_materials[i])]),
             alloy_spec |-> JObject(
                 [name |-> JString(p.alloy_spec.name),
                  target_weight |-> JNumber(p.alloy_spec.target_weight),
                  elements |-> JArray([i \in 1..Len(p.alloy_spec.elements) |->
                                          ElementToJson(p.alloy_spec.elements[i])]),
                  max_impurities |-> JNumber(p.alloy_spec.max_impurities),
                  min_hardness |-> DumpOptional(p.alloy_spec.min_hardness),
                  max_hardness |-> DumpOptional(p.alloy_spec.max_hardness),
                  melting_point_min |-> DumpOptional(p.alloy_spec.melting_point_min),
                  melting_point_max |-> DumpOptional(p.alloy_spec.melting_point_max)]),
             additional_constraints |-> JObject(p.additional_constraints)])

\* load_from_json: one RawMaterial from its dict
MaterialFromJson(rm_data) ==
    RawMaterial(rm_data.v.name.v, rm_data.v.cost_per_kg.v, rm_data.v.availability.v,
                [sym \in DOMAIN rm_data.v.composition.v |-> rm_data.v.composition.v[sym].v],
                GetNumber(rm_data, "density", DefaultDensity),
                GetNumber(rm_data, "purity", DefaultPurity))

\* load_from_json: one Element from its dict
ElementFromJson(e_data) ==
    Element(e_data.v.symbol.v, e_data.v.name.v, e_data.v.min_percent.v, e_data.v.max_percent.v,
            GetOptional(e_data, "target_percent"))

\* BlendingProblem.load_from_json on the content of the file
load_from_json(data) ==
    LET alloy_spec_data == data.v.alloy_spec
    IN  [name |-> data.v.name.v,
         raw_materials |-> [i \in 1..Len(data.v.raw_materials.v) |->
                               MaterialFromJson(data.v.raw_materials.v[i])],
         alloy_spec |->
             [name |-> alloy_spec_data.v.name.v,
              target_weight |-> alloy_spec_data.v.target_weight.v,
              elements |-> [i \in 1..Len(alloy_spec_data.v.elements.v) |->
                               ElementFromJson(alloy_spec_data.v.elements.v[i])],
              max_impurities |-> GetNumber(alloy_spec_data, "max_impurities", DefaultMaxImpurities),
              min_hardness |-> GetOptional(alloy_spec_data, "min_hardness"),
              max_hardness |-> GetOptional(alloy_spec_data, "max_hardness"),
              melting_point_min |-> GetOptional(alloy_spec_data, "melting_point_min"),
              melting_point_max |-> GetOptional(alloy_spec_data, "melting_point_max")],
         additional_constraints |->
             IF "additional_constraints" \in DOMAIN data.v
             THEN data.v.additional_constraints.v ELSE <<>>]

-----------------------------------------------------------------------------
(* Alloy blending: Ahmed-BenRejeb/src/models/optimization_model.py *)

\* the keys of self.variables: one entry per material name
VariableNames(p) == {p.raw_materials[i].name : i \in 1..Len(p.raw_materials)}

\* self.variables[name] is the variable added for the last material of that name; its
\* upper bound is that material's availability
VariableUb(p, name) ==
    LET I == {i \in 1..Len(p.raw_materials) : p.raw_materials[i].name = name}
    IN  p.raw_materials[MaxOf(I)].availability

\* gp.quicksum(self.variables[material.name] for material in raw_materials)
TotalWeight(X, p) ==
    SumSeq([i \in 1..Len(p.raw_materials) |-> X[p.raw_materials[i].name]])

\* gp.quicksum(material.cost_per_kg * self.variables[material.name] ...)
BlendCost(X, p) ==
    SumSeq([i \in 1..Len(p.raw_materials) |->
               p.raw_materials[i].cost_per_kg * X[p.raw_materials[i].name]])

\* 100 times element_content: sum of content percentage times quantity
ElementContent(X, p, symbol) ==
    SumSeq([i \in 1..Len(p.raw_materials) |->
               get_element_content(p.raw_materials[i], symbol) * X[p.raw_materials[i].name]])

\* _add_element_constraints, both sides multiplied by 100
ElementConstraints(X, p, element) ==
    /\ element.min_percent > 0 =>
          ElementContent(X, p, element.symbol) >= element.min_percent * TotalWeight(X, p)
    /\ element.max_percent < 100 =>
          ElementContent(X, p, element.symbol) <= element.max_percent * TotalWeight(X, p)
    /\ element.target_percent # None =>
          ElementContent(X, p, element.symbol) = element.target_percent[1] * TotalWeight(X, p)

\* 100 times impurities_content: the content of the elements that are not specified
ImpuritiesContent(X, p) ==
    LET specified_elements ==
            {p.alloy_spec.elements[i].symbol : i \in 1..Len(p.alloy_spec.elements)}
    IN  SumSeq([i \in 1..Len(p.raw_materials) |->
                   SumOver(p.raw_materials[i].composition,
                           DOMAIN p.raw_materials[i].composition \ specified_elements)
                   * X[p.raw_materials[i].name]])

\* _add_additional_constraints
AdditionalConstraints(X, p) ==
    p.alloy_spec.max_impurities < 100 =>
        ImpuritiesContent(X, p) <= p.alloy_spec.max_impurities * TotalWeight(X, p)

\* the points of the model of build_model; the continuous quantities are explored on the
\* integer grid (the explored data put the vertices of the polytope on it)
BlendFeasible(p) ==
    LET names == VariableNames(p)
        top == MaxOf({VariableUb(p, n) : n \in names} \cup {0})
    IN  {X \in [names -> 0..top] :
            /\ \A n \in names : X[n] <= VariableUb(p, n)
            /\ TotalWeight(X, p) = p.alloy_spec.target_weight
            /\ \A i \in 1..Len(p.alloy_spec.elements) :
                  ElementConstraints(X, p, p.alloy_spec.elements[i])
            /\ AdditionalConstraints(X, p)}

\* self.model.optimize() with GRB.MINIMIZE on an ideal engine: the optimal points
BlendOptimal(p) ==
    LET F == BlendFeasible(p)
    IN  {X \in F : \A Y \in F : BlendCost(X, p) <= BlendCost(Y, p)}

\* the element weight over sum(solution.values()), which counts a material name once
PercentageOfSolution(X, p, symbol) ==
    LET weight == SumOver(X, VariableNames(p))
    IN  IF weight > 0 THEN <<ElementContent(X, p, symbol), weight>> ELSE <<0, 1>>

\* element_weight / total_weight * 100, or 0 for no weight; a percentage is kept as the
\* fraction <<numerator, denominator>>
Percentage(X, p, symbol) ==
    IF TotalWeight(X, p) > 0 THEN <<ElementContent(X, p, symbol), TotalWeight(X, p)>>
    ELSE <<0, 1>>

\* the tolerance 1e-6 of _check_constraints_satisfaction, as its inverse
InverseTolerance == 1000000

\* _check_constraints_satisfaction, the flags keyed by <<symbol, "min" | "max" | "target">>;
\* the comparisons of the percentage pct[1] / pct[2] are multiplied by
\* pct[2] * InverseTolerance, and a later element of the same symbol overwrites the flags
\* of an earlier one
check_constraints_satisfaction(p, element_percentages) ==
    LET elems == p.alloy_spec.elements
        last(symbol) == elems[MaxOf({i \in 1..Len(elems) : elems[i].symbol = symbol})]
        lastTarget(symbol) ==
            elems[MaxOf({i \in 1..Len(elems) : elems[i].symbol = symbol
                                               /\ elems[i].target_percent # None})]
        keys == {<<elems[i].symbol, "min">> : i \in 1..Len(elems)}
                \cup {<<elems[i].symbol, "max">> : i \in 1..Len(elems)}
                \cup {<<elems[i].symbol, "target">> :
                         i \in {h \in 1..Len(elems) : elems[h].target_percent # None}}
    IN  [key \in keys |->
            LET pct == element_percentages[key[1]]
                actual == pct[1] * InverseTolerance
            IN  CASE key[2] = "min" ->
                        actual >= (last(key[1]).min_percent * InverseTolerance - 1) * pct[2]
                  [] key[2] = "max" ->
                        actual <= (last(key[1]).max_percent * InverseTolerance + 1) * pct[2]
                  [] key[2] = "target" ->
                        LET target == lastTarget(key[1]).target_percent[1] * InverseTolerance
                                          * pct[2]
                        IN  actual - target <= pct[2] /\ target - actual <= pct[2]]

OptimizationResult(status, objective_value, solution, percentages, weight, cost, flags) ==
    [status |-> status, objective_value |-> objective_value, solution |-> solution,
     element_percentages |-> percentages, total_weight |-> weight,
     total_cost |-> cost, constraints_satisfied |-> flags,
     sensitivity_analysis |-> None]

\* the result returned on every branch of solve but the optimal one
EmptyOptimizationResult(status) == OptimizationResult(status, None, <<>>, <<>>, 0, 0, <<>>)

\* _extract_optimal_solution at the point X of the engine
extract_optimal_solution(X, p) ==
    LET element_percentages == [symbol \in get_all_elements(p) |-> Percentage(X, p, symbol)]
    IN  OptimizationResult("OPTIMAL", Some(BlendCost(X, p)),
                           [n \in VariableNames(p) |-> X[n]], element_percentages,
                           TotalWeight(X, p), BlendCost(X, p),
                           check_constraints_satisfaction(p, element_percentages))

\* BlendingOptimizer.solve on a model built with the engine: the results it may return, for
\* an ideal solve, for a solve of a model without a point that ends with status
\* INF_OR_UNBD (4), and for an exception raised by optimize(). The branch taken without
\* the engine is not reached: build_model raises before (see OptimizationThreadBuild).
optimizer_solve(p) ==
    {extract_optimal_solution(X, p) : X \in BlendOptimal(p)}
    \cup (IF BlendFeasible(p) = {}
          THEN {EmptyOptimizationResult("INFAISABLE"),
                EmptyOptimizationResult("ERREUR_STATUT_4")}
          ELSE {})
    \cup {EmptyOptimizationResult("ERREUR: GurobiError")}

-----------------------------------------------------------------------------
(* Alloy blending: Ahmed-BenRejeb/src/ui/main_window.py *)

\* the composition cell texts that occur
CompFe == "{\"Fe\": 100}"
CompFeC == "{\"Fe\": 50, \"C\": 50}"
CompFe150 == "{\"Fe\": 150}"

\* json.loads(composition_text): any other text raises JSONDecodeError
IsJson(txt) == txt \in {"{}", CompFe, CompFeC, CompFe150}
JsonLoads(txt) ==
    CASE txt = "{}" -> <<>>
      [] txt = CompFe -> [symbol \in {"Fe"} |-> 100]
      [] txt = CompFeC -> [symbol \in {"Fe", "C"} |-> 50]
      [] txt = CompFe150 -> [symbol \in {"Fe"} |-> 150]

\* json.dumps(composition) and str(number): the texts read back as the same values
JsonDumps(composition) ==
    CHOOSE txt \in {"{}", CompFe, CompFeC, CompFe150} : JsonLoads(txt) = composition
Str(v) == CHOOSE txt \in {"-1", "0", "1", "2", "3", "5", "6", "8", "10", "50", "100"} : Float(txt) = v

\* MaterialTableWidget.get_materials: rows <<name, cost, availability, density, purity,
\* composition>>; a row without a name or with a cell that does not parse is skipped
RECURSIVE get_materials(_)
get_materials(rows) ==
    IF rows = <<>> THEN <<>>
    ELSE LET r == rows[1]
         IN  (IF Strip(r[1]) = "" THEN <<>>
              ELSE IF ~(IsNumeric(r[2]) /\ IsNumeric(r[3]) /\ IsNumeric(r[4]) /\ IsNumeric(r[5]))
              THEN <<>>
              ELSE IF r[6] # "" /\ ~IsJson(r[6]) THEN <<>>
              ELSE << RawMaterial(Strip(r[1]), Float(r[2]), Float(r[3]),
                                  IF r[6] = "" THEN <<>> ELSE JsonLoads(r[6]),
                                  10 * Float(r[4]), Float(r[5])) >>)
             \o get_materials(Tail(rows))

\* ElementSpecWidget.get_elements: rows <<symbol, name, min, max, target, checked>>; only
\* the checked rows are read, and a row that does not parse or lacks a symbol or a name
\* is skipped
RECURSIVE get_elements(_)
get_elements(rows) ==
    IF rows = <<>> THEN <<>>
    ELSE LET r == rows[1]
         IN  (IF ~r[6] THEN <<>>
              ELSE IF ~(IsNumeric(r[3]) /\ IsNumeric(r[4])) THEN <<>>
              ELSE IF r[5] # "" /\ ~IsNumeric(r[5]) THEN <<>>
              ELSE IF r[1] = "" \/ r[2] = "" THEN <<>>
              ELSE << Element(r[1], r[2], Float(r[3]), Float(r[4]),
                              IF r[5] = "" THEN None ELSE Some(Float(r[5]))) >>)
             \o get_elements(Tail(rows))

\* AlloyMainWindow.build_problem_from_ui: the problem, or the ValueError it raises
build_problem_from_ui ==
    LET materials == get_materials(materials_table)
        elements == get_elements(elements_table)
    IN  IF materials = <<>>
        THEN [ok |-> FALSE, error |-> "Aucune matiere premiere valide definie"]
        ELSE IF elements = <<>>
        THEN [ok |-> FALSE, error |-> "Aucun element de specification defini"]
        ELSE [ok |-> TRUE,
              problem |-> BlendingProblem("Melange d'Alliage Metallurgique", materials,
                              AlloySpecification("Acier Inoxydable 316L", target_weight_spin,
                                                 elements, max_impurities_spin))]

NoThread == [pc |-> "none", problem |-> None, result |-> None]

\* AlloyMainWindow.start_optimization, from a click on the enabled solve button
start_optimization ==
    /\ solve_btn
    /\ Len(thread_signals) < MaxPending
    /\ LET built == build_problem_from_ui
       IN  IF ~built.ok
           THEN /\ dialog' = "Erreur lors du demarrage"
                /\ UNCHANGED <<problem, optimization_thread, solve_btn, stop_btn>>
           ELSE /\ problem' = Some(built.problem)
                /\ IF validate(built.problem) # <<>>
                   THEN /\ dialog' = "Erreurs de Validation"
                        /\ UNCHANGED <<optimization_thread, solve_btn, stop_btn>>
                   ELSE /\ dialog' = ""
                        /\ optimization_thread' = [pc |-> "started",
                                                   problem |-> Some(built.problem),
                                                   result |-> None]
                        /\ solve_btn' = FALSE
                        /\ stop_btn' = TRUE
    /\ UNCHANGED <<gurobi_available, materials_table, elements_table, target_weight_spin,
                   max_impurities_spin, thread_signals, shown_result, json_file, notBlendVars>>

\* OptimizationThread.run up to optimizer.build_model(). Without the engine the module
\* mock_gurobi stands for it, and the objective of build_model raises TypeError (a float
\* times a MockVariable); with the engine the build succeeds or the engine raises. The
\* exception is caught by run, which emits error.
OptimizationThreadBuild ==
    /\ optimization_thread.pc = "started"
    /\ \/ /\ gurobi_available
          /\ optimization_thread' = [optimization_thread EXCEPT !.pc = "built"]
          /\ UNCHANGED thread_signals
       \/ /\ optimization_thread' = [optimization_thread EXCEPT !.pc = "finished"]
          /\ thread_signals' = Append(thread_signals,
                 [kind |-> "error",
                  message |-> IF gurobi_available THEN "GurobiError" ELSE "TypeError"])
    /\ UNCHANGED <<gurobi_available, materials_table, elements_table, target_weight_spin,
                   max_impurities_spin, problem, shown_result, solve_btn, stop_btn, dialog,
                   json_file, notBlendVars>>

\* OptimizationThread.run: result = optimizer.solve()
OptimizationThreadSolve ==
    /\ optimization_thread.pc = "built"
    /\ \E r \in optimizer_solve(optimization_thread.problem[1]) :
          optimization_thread' = [optimization_thread EXCEPT !.pc = "solved", !.result = Some(r)]
    /\ UNCHANGED <<gurobi_available, materials_table, elements_table, target_weight_spin,
                   max_impurities_spin, problem, thread_signals, shown_result, solve_btn,
                   stop_btn, dialog, json_file, notBlendVars>>

\* perform_sensitivity_analysis: the duals and reduced costs of the engine, kept abstract
SensitivityAnalysis == [shadow_prices |-> "Pi", reduced_costs |-> "RC", ranges |-> <<>>]

\* OptimizationThread.run after solve: the sensitivity analysis is stored in the result
\* when its status is OPTIMAL, then finished is emitted with the result
OptimizationThreadFinish ==
    /\ optimization_thread.pc = "solved"
    /\ LET r == optimization_thread.result[1]
           final == IF r.status = "OPTIMAL"
                    THEN [r EXCEPT !.sensitivity_analysis = Some(SensitivityAnalysis)]
                    ELSE r
       IN  /\ optimization_thread' =
                  [optimization_thread EXCEPT !.pc = "finished", !.result = Some(final)]
           /\ thread_signals' = Append(thread_signals, [kind |-> "finished", result |-> final])
    /\ UNCHANGED <<gurobi_available, materials_table, elements_table, target_weight_spin,
                   max_impurities_spin, problem, shown_result, solve_btn, stop_btn, dialog,
                   json_file, notBlendVars>>

\* AlloyMainWindow.on_optimization_finished, on the oldest signal
on_blend_finished ==
    /\ thread_signals # <<>>
    /\ Head(thread_signals).kind = "finished"
    /\ shown_result' = Some(Head(thread_signals).result)
    /\ solve_btn' = TRUE
    /\ stop_btn' = FALSE
    /\ thread_signals' = Tail(thread_signals)
    /\ UNCHANGED <<gurobi_available, materials_table, elements_table, target_weight_spin,
                   max_impurities_spin, problem, optimization_thread, dialog, json_file,
                   notBlendVars>>

\* AlloyMainWindow.on_optimization_error, on the oldest signal
on_blend_error ==
    /\ thread_signals # <<>>
    /\ Head(thread_signals).kind = "error"
    /\ dialog' = "Erreur d'Optimisation"
    /\ solve_btn' = TRUE
    /\ stop_btn' = FALSE
    /\ thread_signals' = Tail(thread_signals)
    /\ UNCHANGED <<gurobi_available, materials_table, elements_table, target_weight_spin,
                   max_impurities_spin, problem, optimization_thread, shown_result, json_file,
                   notBlendVars>>

\* AlloyMainWindow.stop_optimization, from a click on the enabled stop button
stop_optimization ==
    /\ stop_btn
    /\ optimization_thread' =
           IF optimization_thread.pc \in {"started", "built", "solved"}
           THEN [optimization_thread EXCEPT !.pc = "terminated"]
           ELSE optimization_thread
    /\ solve_btn' = TRUE
    /\ stop_btn' = FALSE
    /\ UNCHANGED <<gurobi_available, materials_table, elements_table, target_weight_spin,
                   max_impurities_spin, problem, thread_signals, shown_result, dialog,
                   json_file, notBlendVars>>

\* AlloyMainWindow.save_problem with a file chosen in the dialog
save_problem ==
    /\ LET built == build_problem_from_ui
       IN  IF ~built.ok
           THEN dialog' = "Erreur lors de la sauvegarde" /\ UNCHANGED json_file
           ELSE dialog' = "" /\ json_file' = Some(save_to_json(built.problem))
    /\ UNCHANGED <<gurobi_available, materials_table, elements_table, target_weight_spin,
                   max_impurities_spin, problem, optimization_thread, thread_signals,
                   shown_result, solve_btn, stop_btn, notBlendVars>>

\* QDoubleSpinBox.setValue keeps the value within the range of the box
Clamp(v, lo, hi) == IF v < lo THEN lo ELSE IF v > hi THEN hi ELSE v

\* load_problem_to_ui: one row of the materials table
MaterialRow(material) ==
    << material.name, Str(material.cost_per_kg), Str(material.availability),
       Str(material.density \div 10), Str(material.purity),
       JsonDumps(material.composition) >>

\* AlloyMainWindow.load_problem on the file written before, and load_problem_to_ui; the
\* element specifications are not loaded into the interface
load_problem ==
    /\ json_file # None
    /\ LET loaded == load_from_json(json_file[1])
       IN  /\ problem' = Some(loaded)
           /\ target_weight_spin' = Clamp(loaded.alloy_spec.target_weight, 1, 100000)
           /\ max_impurities_spin' = Clamp(loaded.alloy_spec.max_impurities, 0, 10)
           /\ materials_table' = [i \in 1..Len(loaded.raw_materials) |->
                                     MaterialRow(loaded.raw_materials[i])]
    /\ dialog' = ""
    /\ UNCHANGED <<gurobi_available, elements_table, optimization_thread, thread_signals,
                   shown_result, solve_btn, stop_btn, json_file, notBlendVars>>

\* the rows the tables are filled from
MaterialRows ==
    { <<"A", "1", "6", "8", "100", CompFe>>,
      <<"B", "2", "6", "8", "100", CompFeC>>,
      <<"T", "1", "6", "8", "100", CompFe150>>,
      <<"A ", "2", "3", "8", "100", "">>,
      <<"B", "x", "6", "8", "100", CompFe>>,
      <<"Z", "0", "6", "8", "100", CompFe>>,
      <<"", "1", "6", "8", "100", "x">> }

ElementRows ==
    { <<"Fe", "Fer", "0", "100", "", TRUE>>,
      <<"Fe", "Fer", "50", "100", "", TRUE>>,
      <<"Fe", "Fer", "0", "100", "50", TRUE>>,
      <<"C", "Carbone", "0", "50", "", TRUE>>,
      <<"C", "Carbone", "5", "2", "", TRUE>>,
      <<"Fe", "Fer", "0", "100", "", FALSE>>,
      <<"Fe", "Fer", "x", "100", "", TRUE>> }

TargetWeights == {6}

BlendIdle ==
    /\ gurobi_available = TRUE
    /\ materials_table = <<>>
    /\ elements_table = <<>>
    /\ target_weight_spin = 1000
    /\ max_impurities_spin = DefaultMaxImpurities
    /\ problem = None
    /\ optimization_thread = NoThread
    /\ thread_signals = <<>>
    /\ shown_result = None
    /\ solve_btn = TRUE
    /\ stop_btn = FALSE
    /\ dialog = ""
    /\ json_file = None

InitBlend ==
    /\ gurobi_available \in BOOLEAN
    /\ materials_table \in SeqsUpTo(MaterialRows, MaxMaterials)
    /\ elements_table \in SeqsUpTo(ElementRows, MaxElements)
    /\ target_weight_spin \in TargetWeights
    /\ max_impurities_spin = DefaultMaxImpurities
    /\ problem = None
    /\ optimization_thread = NoThread
    /\ thread_signals = <<>>
    /\ shown_result = None
    /\ solve_btn = TRUE
    /\ stop_btn = FALSE
    /\ dialog = ""
    /\ json_file = None

NextBlend ==
    \/ start_optimization
    \/ OptimizationThreadBuild
    \/ OptimizationThreadSolve
    \/ OptimizationThreadFinish
    \/ on_blend_finished
    \/ on_blend_error
    \/ stop_optimization
    \/ save_problem
    \/ load_problem

-----------------------------------------------------------------------------
(* Properties of the Greedy Fallback (MockSolver.solve) *)

\* number of students that were given a project: every assigned student is appended to
\* exactly one list of the assignments dict
RECURSIVE SumLens(_, _)
SumLens(asg, S) ==
    IF S = {} THEN 0
    ELSE LET p == CHOOSE x \in S : TRUE IN Len(asg[p]) + SumLens(asg, S \ {p})

TotalAssigned(asg) == SumLens(asg, DOMAIN asg)

DistinctIds(recs) == \A i, j \in 1..Len(recs) : recs[i].id = recs[j].id => i = j

RECURSIVE SumCapMax(_)
SumCapMax(projs) ==
    IF projs = <<>> THEN 0 ELSE projs[1].capacity_max + SumCapMax(Tail(projs))

\* the project known under id pid (the first of the list with that id) holds fewer
\* students than its capacity_max
C1_HasRoom(pid) ==
    \E j \in 1..Len(projects) :
        /\ projects[j].id = pid
        /\ \A i \in 1..(j - 1) : projects[i].id # pid
        /\ Len(assignments[pid]) < projects[j].capacity_max

\* the student s is assigned to project pid with score sc by the step
C1_AssignedTo(s, pid, sc) ==
    /\ assignments' = [assignments EXCEPT ![pid] = Append(@, s.id)]
    /\ s.id \in DOMAIN student_assignments'
    /\ student_assignments'[s.id] = pid
    /\ \A q \in DOMAIN student_assignments' \ {s.id} :
          q \in DOMAIN student_assignments /\ student_assignments'[q] = student_assignments[q]
    /\ obj_val' = obj_val + sc

C1_StepPost ==
    LET s == sorted_students[idx]
        prefs == s.preferences
        Open == {i \in 1..Len(prefs) : C1_HasRoom(prefs[i][1])}
        Free == {j \in 1..Len(projects) :
                    Len(assignments[projects[j].id]) < projects[j].capacity_max}
    IN  /\ idx > 1 => sorted_students[idx - 1].id <= s.id
        /\ IF Open # {}
           THEN \E i \in Open :
                   /\ \A h \in Open : prefs[h][2] <= prefs[i][2]
                   /\ C1_AssignedTo(s, prefs[i][1], prefs[i][2])
           ELSE IF Free # {}
           THEN \E j \in Free :
                   /\ \A h \in Free : j <= h
                   /\ C1_AssignedTo(s, projects[j].id, 0)
           ELSE UNCHANGED <<assignments, student_assignments, obj_val>>

\* the students visited are the students of the input, each once
C1_VisitsAll ==
    /\ Len(sorted_students') = Len(students)
    /\ \A x \in Range(students) :
          Cardinality({i \in 1..Len(students) : students[i] = x})
              = Cardinality({i \in 1..Len(students) : sorted_students'[i] = x})

\* C1: the greedy visits the students in ascending id order; each goes to the preferred
\* project of highest score among those that exist and have room (adding the score), else
\* to the first project in declaration order with room (adding 0), and stays unassigned
\* only when no project has room.
C1_GreedyStep ==
    [][ /\ (MockStart => C1_VisitsAll)
        /\ (MockStep => C1_StepPost) ]_vars

\* a finished run in which one student got a preferred project and another one fell back
\* to a project it has no preference for
C1_Witness ==
    /\ pc = "done"
    /\ \E i, j \in 1..Len(students) :
          /\ students[i].id # students[j].id
          /\ students[i].id \in DOMAIN result.student_assignments
          /\ students[j].id \in DOMAIN result.student_assignments
          /\ PrefGet(students[i].preferences, result.student_assignments[students[i].id]) > 0
          /\ PrefGet(students[j].preferences, result.student_assignments[students[j].id]) = 0
          /\ students[j].preferences # <<>>

\* C2: the status is the success status exactly when every student of the input received
\* an assignment, and the partial status otherwise; neither is the exact solver's
\* INFEASIBLE.
C2_StatusIffAllAssigned ==
    pc = "done" =>
        /\ result.status = (IF TotalAssigned(result.assignments) = Len(students)
                            THEN "OPTIMAL (MOCK)" ELSE "INFEASIBLE (MOCK)")
        /\ result.status # "INFEASIBLE"

\* C4: with distinct student ids and total capacity_max at least the number of students,
\* every student has an entry of student_assignments and the status is the MOCK success.
C4_AssignsWhenPossible ==
    (pc = "done" /\ DistinctIds(students) /\ SumCapMax(projects) >= Len(students)) =>
        /\ Cardinality(DOMAIN result.student_assignments) = Len(students)
        /\ result.status = "OPTIMAL (MOCK)"

\* C5: on the demo scenario student 1 goes to 101, student 3 to 102, student 2 to a
\* project within its capacity, and the objective is at least 19.
C5_DemoScenario ==
    (pc = "done" /\ students = DemoStudents /\ projects = DemoProjects) =>
        /\ DOMAIN result.student_assignments = {1, 2, 3}
        /\ result.student_assignments[1] = 101
        /\ result.student_assignments[3] = 102
        /\ result.student_assignments[2] \in {101, 102}
        /\ \A j \in 1..Len(projects) :
              Len(result.assignments[projects[j].id]) <= projects[j].capacity_max
        /\ result.objective_value >= 19

C5_Witness ==
    /\ pc = "done"
    /\ students = DemoStudents
    /\ projects = DemoProjects
    /\ result.status = "OPTIMAL (MOCK)"

-----------------------------------------------------------------------------
(* Properties of the assignment solvers *)

Succeeded == result.status \in {"OPTIMAL", "OPTIMAL (MOCK)"}

\* the engine answered as an ideal engine does (or the greedy ran, which needs none)
IdealRun ==
    result.status \in {"OPTIMAL", "INFEASIBLE", "OPTIMAL (MOCK)", "INFEASIBLE (MOCK)"}

EveryStudentAssigned ==
    \A i \in 1..Len(students) : students[i].id \in DOMAIN result.student_assignments

\* a structurally valid problem: unique ids and sane capacities
ValidProblem ==
    /\ DistinctIds(students)
    /\ DistinctIds(projects)
    /\ \A j \in 1..Len(projects) :
          0 <= projects[j].capacity_min /\ projects[j].capacity_min <= projects[j].capacity_max

C3_Case ==
    /\ pc = "done"
    /\ IdealRun
    /\ ValidProblem
    /\ \A j \in 1..Len(projects) : projects[j].capacity_min = 0
    /\ \A i \in 1..Len(students) : students[i].incompatible_with = <<>>

\* C3, for every valid problem: on every valid problem with capacity_min = 0 everywhere and no
\* incompatibility, the exact solver and the greedy both succeed with every student assigned.
C3_AlwaysAssigned == C3_Case => (Succeeded /\ EveryStudentAssigned)

\* C3, with room for everyone: the same property for the problems whose capacity_max values sum to at least the
\* number of students.
C3_AssignedWhenRoom ==
    (C3_Case /\ SumCapMax(projects) >= Len(students)) => (Succeeded /\ EveryStudentAssigned)

\* the exact solver succeeded on such a problem with two students
C3_Witness ==
    /\ C3_Case
    /\ SumCapMax(projects) >= Len(students)
    /\ Len(students) >= 2
    /\ result.status = "OPTIMAL"

\* number of entries of the assignment lists that are the student id sid
Occurrences(asg, sid) ==
    SumSeq([j \in 1..Len(projects) |->
              IF \E h \in 1..(j - 1) : projects[h].id = projects[j].id THEN 0
              ELSE Cardinality({n \in 1..Len(asg[projects[j].id]) : asg[projects[j].id][n] = sid})])

\* C6: in an OPTIMAL result each student is assigned to exactly one project, each project
\* holds between capacity_min and capacity_max students, and no student shares a project
\* with a student it declares incompatible.
C6_OptimalRespectsConstraints ==
    (pc = "done" /\ result.status = "OPTIMAL") =>
        /\ \A i \in 1..Len(students) :
              LET sid == students[i].id IN
              /\ sid \in DOMAIN result.student_assignments
              /\ {pid \in DOMAIN result.assignments : sid \in Range(result.assignments[pid])}
                     = {result.student_assignments[sid]}
              /\ Occurrences(result.assignments, sid)
                     = Cardinality({h \in 1..Len(students) : students[h].id = sid})
        /\ \A j \in 1..Len(projects) :
              /\ Len(result.assignments[projects[j].id]) >= projects[j].capacity_min
              /\ Len(result.assignments[projects[j].id]) <= projects[j].capacity_max
        /\ \A i, h \in 1..Len(students) :
              (i # h /\ students[h].id \in Range(students[i].incompatible_with)) =>
                  result.student_assignments[students[i].id]
                      # result.student_assignments[students[h].id]

\* an OPTIMAL result for two students, one declaring the other incompatible, with a
\* project that must receive a student
C6_Witness ==
    /\ pc = "done"
    /\ result.status = "OPTIMAL"
    /\ Len(students) = 2
    /\ students[2].id \in Range(students[1].incompatible_with)
    /\ students[1].id # students[2].id
    /\ \E j \in 1..Len(projects) : projects[j].capacity_min = 1

\* the assignments of students to projects (by position in the two lists) that satisfy
\* the assignment constraints
DomainAssignments ==
    {f \in [1..Len(students) -> 1..Len(projects)] :
        /\ \A j \in 1..Len(projects) :
              LET n == Cardinality({i \in 1..Len(students) : f[i] = j})
              IN  projects[j].capacity_min <= n /\ n <= projects[j].capacity_max
        /\ \A i, h \in 1..Len(students) :
              (i # h /\ students[h].id \in Range(students[i].incompatible_with)) => f[i] # f[h]}

DomainScore(f) ==
    SumSeq([i \in 1..Len(students) |-> PrefGet(students[i].preferences, projects[f[i]].id)])

ReturnedScore ==
    SumSeq([i \in 1..Len(students) |->
              PrefGet(students[i].preferences, result.student_assignments[students[i].id])])

\* C7: an OPTIMAL result maximizes the sum of preference scores over the assignments that
\* satisfy the constraints, a pair without declared preference scoring 0; two students
\* whose top choices are different projects of capacity 1 each get their top choice.
C7_OptimalIsMaximal ==
    (pc = "done" /\ result.status = "OPTIMAL") =>
        /\ EveryStudentAssigned
        /\ result.objective_value = ReturnedScore
        /\ \A f \in DomainAssignments : DomainScore(f) <= ReturnedScore

\* C7 restricted to the problems with unique student ids and unique project ids
C7_OptimalIsMaximalUniqueIds ==
    (DistinctIds(students) /\ DistinctIds(projects)) => C7_OptimalIsMaximal

-----------------------------------------------------------------------------
(* Properties of the vertex cover worker *)

\* the rows of a two-column table whose two cells are not empty, stripped
FilledRows(table) ==
    {<<Strip(table[i][1]), Strip(table[i][2])>> : i \in {h \in 1..Len(table) :
        Strip(table[h][1]) # "" /\ Strip(table[h][2]) # ""}}

\* C8: in every OPTIMAL solution emitted by the worker every coverage edge has an endpoint
\* in the selected list and no conflict pair has both endpoints in it.
C8_CoverAndConflicts ==
    signal.kind = "result_ready" =>
        /\ \A e \in FilledRows(table_wires) \cup Range(worker.edges) :
              e[1] \in Range(signal.selected) \/ e[2] \in Range(signal.selected)
        /\ \A c \in FilledRows(table_incomp) \cup Range(worker.incompatibilities) :
              ~(c[1] \in Range(signal.selected) /\ c[2] \in Range(signal.selected))

\* a solution emitted for a circuit with a wire and a conflict between two distinct gates
C8_Witness ==
    /\ signal.kind = "result_ready"
    /\ signal.selected # <<>>
    /\ worker.edges # <<>>
    /\ \E i \in 1..Len(worker.incompatibilities) :
          worker.incompatibilities[i][1] # worker.incompatibilities[i][2]

DemoLoaded == table_gates = DemoGates /\ table_wires = DemoWires /\ table_incomp = <<>>

\* C9: on the demo circuit (A:10, B:10, C:5, wires A-B, B-C, C-A, no conflict) the optimal
\* objective is exactly 15, reached by {A, C} or {B, C}.
C9_DemoOptimum ==
    (DemoLoaded /\ signal.kind = "result_ready") =>
        /\ signal.objVal = 15
        /\ Range(signal.selected) \in {{"A", "C"}, {"B", "C"}}

C9_Witness ==
    /\ DemoLoaded
    /\ lbl_result = <<"Solution Optimale Trouvee", 15, <<"A", "C">> >>

-----------------------------------------------------------------------------
(* Properties of the maximum flow solve *)

ArcsInto(as, k) == {i \in 1..Len(as) : as[i].to_node = k}
ArcsOutOf(as, k) == {i \in 1..Len(as) : as[i].from_node = k}
FlowOf(as) == [i \in 1..Len(as) |-> as[i].flow]

\* C10: the flows extracted by a solve are conserved at every node other than the source
\* and the sink, and the flow reported for each declared arc is at most its capacity.
C10_ConservationAndCapacity ==
    [][(solve_max_flow /\ message' = "") =>
          /\ \A i \in 1..Len(arcs') : arcs'[i].flow <= arcs'[i].capacity
          /\ \A k \in nodes \ {source_combo, sink_combo} :
                SumOver(FlowOf(arcs'), ArcsInto(arcs', k))
                    = SumOver(FlowOf(arcs'), ArcsOutOf(arcs', k))]_vars

\* the solve request names no source, no sink, or the same node as both
BadEndpoints ==
    \/ source_combo = "Select source"
    \/ sink_combo = "Select sink"
    \/ source_combo = sink_combo

\* C11: a solve request whose source or sink is unset, or whose source equals its sink, is
\* rejected with a warning before any model is built, and no flow result is reported.
C11_RejectsBadEndpoints ==
    [][(solve_max_flow /\ BadEndpoints) =>
          (message' # "" /\ UNCHANGED <<arcs, result_label, flow_list>>)]_vars

-----------------------------------------------------------------------------
(* Properties of the multi-modal transport application *)

\* the flow of a result on a key: the keys left out of 'flows' carry no passenger
ResultFlow(res, key) == DictGet(res.flows, key, 0)

ResultOut(res, hub) == SumOver(res.flows, {key \in DOMAIN res.flows : key[1] = hub})
ResultIn(res, hub) == SumOver(res.flows, {key \in DOMAIN res.flows : key[2] = hub})

\* the result res satisfies the balance, capacity and throughput declarations of d
Conforms(res, d) ==
    /\ \A hub \in Range(d.hubs) :
          /\ ResultOut(res, hub) - ResultIn(res, hub) = DictGet(d.demands, hub, 0)
          /\ hub \in DOMAIN d.hub_capacities => ResultIn(res, hub) <= d.hub_capacities[hub]
    /\ \A key \in DOMAIN res.flows :
          /\ res.flows[key] \in Nat
          /\ res.flows[key] <= DictGet(d.capacities, key, 0)

\* the step is the return of solve in worker w with an Optimal result
ReturnsOptimal(w) ==
    /\ WorkerSolve(w)
    /\ signals'[Len(signals')].result.status = "Optimal"

\* C12: in every Optimal result of MinCostFlowModel.solve every hub's outflow minus inflow
\* is its declared net demand, every flow is a non-negative integer within its declared
\* capacity, and no hub receives more than its declared throughput. The declarations are
\* the fields of the model when solve returns.
C12_OptimalConforms ==
    [][\A w \in 1..Len(workers) :
          ReturnsOptimal(w) => Conforms(signals'[Len(signals')].result, LiveData)]_vars

\* C12 with the declarations read as the data build_model read when it built the model
C12_OptimalConformsToBuiltData ==
    [][\A w \in 1..Len(workers) :
          ReturnsOptimal(w) => Conforms(signals'[Len(signals')].result, model.data)]_vars

Running(w) == workers[w].pc # "finished"

\* C18: no two solves run at the same time on one model instance.
C18_OneSolvePerModel ==
    \A w1, w2 \in 1..Len(workers) :
        (w1 # w2 /\ Running(w1) /\ Running(w2)) => workers[w1].model # workers[w2].model

\* C19: the data a solve reads are the data as they were when the solve was requested,
\* whatever is edited while the worker runs.
C19_SolveReadsSnapshot ==
    [][\A w \in 1..Len(workers) :
          (WorkerBuild(w) /\ workers'[w].pc = "built") => model'.data = workers[w].requested]_vars

-----------------------------------------------------------------------------
(* Properties of the error handling *)

\* C15: an exception raised by the engine while a model is built or optimized never
\* leaves the solve operation; here for the maximum-flow solve.
C15_NoExceptionLeavesSolve == raised = ""

\* the loop of MockSolver.solve run to its end on the sorted students
RECURSIVE MockLoop(_, _, _, _, _)
MockLoop(sorted, projs, asg, sasg, obj) ==
    IF sorted = <<>> THEN [assignments |-> asg, student_assignments |-> sasg, obj_val |-> obj]
    ELSE LET s == Head(sorted)
             c == MockChoice(s, projs, asg)
         IN  IF c.assigned
             THEN MockLoop(Tail(sorted), projs, [asg EXCEPT ![c.pid] = Append(@, s.id)],
                           (s.id :> c.pid) @@ sasg, obj + c.score)
             ELSE MockLoop(Tail(sorted), projs, asg, sasg, obj)

\* the result MockSolver.solve returns for the students and projects
MockSolve(studs, projs) ==
    LET end == MockLoop(SortedById(studs), projs,
                        [pid \in {projs[j].id : j \in 1..Len(projs)} |-> <<>>], <<>>, 0)
    IN  AssignmentResult(MockStatus(end.student_assignments, studs), end.obj_val,
                         end.assignments, end.student_assignments)

\* C16: without the engine (gp is None) a solve of the assignment family returns the
\* result of the Greedy Fallback on the same students and projects.
C16_DegradesToFallback ==
    [][StudentAssignmentSolve("none") => result' = MockSolve(students, projects)]_vars

\* C17: an infeasible model is reported as a result with its own status, not through
\* the error channel; here for the vertex cover, whose worker has the two channels
\* result_ready and error_occurred.
C17_InfeasibleIsNotAnError ==
    ~(signal.kind = "error_occurred" /\ signal.msg = "Infeasible")

-----------------------------------------------------------------------------
(* Properties of the blending optimizer *)

\* the result held by the optimization thread is an optimal one
ThreadHasOptimal ==
    /\ optimization_thread.result # None
    /\ optimization_thread.result[1].status = "OPTIMAL"

\* sum of the quantities of the solution dict
SolutionSum(r) == SumOver(r.solution, DOMAIN r.solution)

\* the percentage pct = <<numerator, denominator>> lies within [lo, hi] (the tolerance of
\* 1e-6 decides nothing on the explored data)
PercentWithin(pct, lo, hi) == lo * pct[2] <= pct[1] /\ pct[1] <= hi * pct[2]

ConformsToSpec(r, p) ==
    /\ SolutionSum(r) = p.alloy_spec.target_weight
    /\ \A i \in 1..Len(p.raw_materials) :
          /\ r.solution[p.raw_materials[i].name] >= 0
          /\ r.solution[p.raw_materials[i].name] <= p.raw_materials[i].availability
    /\ \A i \in 1..Len(p.alloy_spec.elements) :
          PercentWithin(r.element_percentages[p.alloy_spec.elements[i].symbol],
                        p.alloy_spec.elements[i].min_percent,
                        p.alloy_spec.elements[i].max_percent)

\* C13: every blending result with status OPTIMAL has quantities that sum to the target
\* weight, each within [0, availability] of its material, and every declared element's
\* percentage within [min_percent, max_percent].
C13_OptimalBlendConforms ==
    ThreadHasOptimal =>
        ConformsToSpec(optimization_thread.result[1], optimization_thread.problem[1])

\* the material names are distinct and every content lies within [0, 100]
WellFormedMaterials(p) ==
    /\ \A i, j \in 1..Len(p.raw_materials) :
          p.raw_materials[i].name = p.raw_materials[j].name => i = j
    /\ \A i \in 1..Len(p.raw_materials) :
          \A symbol \in DOMAIN p.raw_materials[i].composition :
              p.raw_materials[i].composition[symbol] \in 0..100

\* C13, for materials with distinct names and contents within [0, 100]:
C13_OptimalBlendConformsWellFormed ==
    (ThreadHasOptimal /\ WellFormedMaterials(optimization_thread.problem[1])) =>
        ConformsToSpec(optimization_thread.result[1], optimization_thread.problem[1])

\* C14: a problem written by save_to_json and read back by load_from_json is the problem
\* that was saved: the file written by save_problem loads as the problem built from the
\* interface, and the problem that load_problem reads is that problem.
C14_SaveLoadRoundTrip ==
    [][/\ (save_problem /\ build_problem_from_ui.ok) =>
              load_from_json(json_file'[1]) = build_problem_from_ui.problem
       /\ load_problem =>
              /\ build_problem_from_ui.ok
              /\ problem' = Some(build_problem_from_ui.problem)]_vars

\* a problem with two materials and a declared target was saved and loaded back into
\* the interface (only load_problem_to_ui writes the text {} into a composition cell)
C14_Witness ==
    /\ json_file # None
    /\ problem = Some(load_from_json(json_file[1]))
    /\ Len(problem[1].raw_materials) = 2
    /\ \E i \in 1..Len(problem[1].alloy_spec.elements) :
          problem[1].alloy_spec.elements[i].target_percent # None
    /\ \E i \in 1..Len(materials_table) : materials_table[i][6] = "{}"

\* C20: once solve has returned a result, no field of that result is written again
\* (a new run starts without a result).
C20_ResultNeverMutated ==
    [][(optimization_thread.result # None /\ optimization_thread'.result # None) =>
           optimization_thread'.result = optimization_thread.result]_vars

-----------------------------------------------------------------------------
(* Properties of the input validation *)

\* no two materials of the problem carry the same name
DistinctNames(materials) ==
    \A i, j \in 1..Len(materials) : materials[i].name = materials[j].name => i = j

\* C21: a problem with two entities of one identifier is reported as a validation
\* violation before any model is built; for blending, no optimization thread ever holds a
\* problem in which two materials have the same name.
C21_DuplicateIdsRejected ==
    optimization_thread.problem # None =>
        DistinctNames(optimization_thread.problem[1].raw_materials)

\* C22: an arc whose two endpoints are the same node is rejected; the arc list of the
\* max-flow window never holds an arc from a node to itself.
C22_SelfLoopRejected ==
    \A i \in 1..Len(arcs) : arcs[i].from_node # arcs[i].to_node

\* the numeric sanity of a blending problem: positive costs and availabilities, and
\* min_percent <= max_percent for every element
NumericallySane(p) ==
    /\ \A i \in 1..Len(p.raw_materials) :
          p.raw_materials[i].cost_per_kg > 0 /\ p.raw_materials[i].availability > 0
    /\ \A i \in 1..Len(p.alloy_spec.elements) :
          p.alloy_spec.elements[i].min_percent <= p.alloy_spec.elements[i].max_percent

\* C23: a blending problem with a material of cost_per_kg <= 0 or availability <= 0, or
\* an element with min_percent > max_percent, is reported invalid and no model is built;
\* no optimization thread ever holds such a problem.
C23_InsaneProblemRejected ==
    optimization_thread.problem # None => NumericallySane(optimization_thread.problem[1])

\* the part of C23 that validate does check: no thread ever holds a problem with an
\* element whose min_percent exceeds its max_percent
C23_MinAboveMaxRejected ==
    optimization_thread.problem # None =>
        \A i \in 1..Len(optimization_thread.problem[1].alloy_spec.elements) :
            optimization_thread.problem[1].alloy_spec.elements[i].min_percent
                <= optimization_thread.problem[1].alloy_spec.elements[i].max_percent

-----------------------------------------------------------------------------
(* Properties of the blending post-processing *)

\* 100 times the weight of an element in the solution of r: the sum over the materials of
\* quantity times content
ElementWeight(r, p, symbol) ==
    SumSeq([i \in 1..Len(p.raw_materials) |->
               r.solution[p.raw_materials[i].name]
                   * get_element_content(p.raw_materials[i], symbol)])

\* the elements whose flags are kept: for a symbol declared twice the later element
LastOfSymbol(p) ==
    {i \in 1..Len(p.alloy_spec.elements) :
        \A j \in (i + 1)..Len(p.alloy_spec.elements) :
            p.alloy_spec.elements[j].symbol # p.alloy_spec.elements[i].symbol}

\* the flags of r are those of the tolerance tests on its percentages
FlagsMatch(r, p) ==
    /\ \A i \in LastOfSymbol(p) :
          LET e == p.alloy_spec.elements[i]
              pct == r.element_percentages[e.symbol]
          IN  /\ r.constraints_satisfied[<<e.symbol, "min">>]
                    <=> (pct[1] * InverseTolerance
                            >= (e.min_percent * InverseTolerance - 1) * pct[2])
              /\ r.constraints_satisfied[<<e.symbol, "max">>]
                    <=> (pct[1] * InverseTolerance
                            <= (e.max_percent * InverseTolerance + 1) * pct[2])
              /\ e.target_percent # None =>
                    (r.constraints_satisfied[<<e.symbol, "target">>]
                        <=> LET d == pct[1] * InverseTolerance
                                         - e.target_percent[1] * InverseTolerance * pct[2]
                            IN  d <= pct[2] /\ -d <= pct[2])
    /\ \A symbol \in get_all_elements(p) :
          <<symbol, "target">> \in DOMAIN r.constraints_satisfied
              <=> \E i \in 1..Len(p.alloy_spec.elements) :
                     /\ p.alloy_spec.elements[i].symbol = symbol
                     /\ p.alloy_spec.elements[i].target_percent # None

\* C24: for a found blending solution, each element's percentage is the sum over the
\* materials of quantity times content / 100, divided by the total weight and expressed in
\* percent (0 for a total weight of 0), and the flags symbol_min, symbol_max and, only for
\* a declared target, symbol_target are those of the tests percentage >= min - 1e-6,
\* percentage <= max + 1e-6 and |percentage - target| <= 1e-6.
C24_PercentagesAndFlags ==
    ThreadHasOptimal =>
        LET r == optimization_thread.result[1]
            p == optimization_thread.problem[1]
        IN  /\ DOMAIN r.element_percentages = get_all_elements(p)
            /\ \A symbol \in get_all_elements(p) :
                  LET pct == r.element_percentages[symbol]
                  IN  /\ pct[2] > 0
                      /\ IF r.total_weight = 0 THEN pct[1] = 0
                         ELSE pct[1] * r.total_weight = ElementWeight(r, p, symbol) * pct[2]
            /\ FlagsMatch(r, p)

\* an optimal result in which some flag is false and some percentage is neither 0 nor 100
C24_Witness ==
    /\ ThreadHasOptimal
    /\ \E key \in DOMAIN optimization_thread.result[1].constraints_satisfied :
          ~optimization_thread.result[1].constraints_satisfied[key]
    /\ \E symbol \in DOMAIN optimization_thread.result[1].element_percentages :
          LET pct == optimization_thread.result[1].element_percentages[symbol]
          IN  pct[1] # 0 /\ pct[1] # 100 * pct[2]

-----------------------------------------------------------------------------
(* Properties of the results of the Greedy Fallback *)

\* the run that ended was one of MockSolver.solve
MockDone == pc = "done" /\ result.status \in {"OPTIMAL (MOCK)", "INFEASIBLE (MOCK)"}

\* the students without their incompatibilities, the projects without their minimum
WithoutIncompat(studs) ==
    [i \in 1..Len(studs) |-> [studs[i] EXCEPT !.incompatible_with = <<>>]]
WithoutMin(projs) == [j \in 1..Len(projs) |-> [projs[j] EXCEPT !.capacity_min = 0]]

\* C25: the Greedy Fallback ignores incompatibility and minimum-capacity data: the result
\* of a run is the result of the run on the same students without incompatibilities and
\* the same projects with capacity_min 0, so that two inputs that differ only in these
\* data get the same assignments, objective value and status.
C25_IgnoresIncompatAndMin ==
    MockDone => result = MockSolve(WithoutIncompat(students), WithoutMin(projects))

\* a run that put two students into one project although one lists the other as
\* incompatible, and left a project below its minimum capacity
C25_Witness ==
    /\ MockDone
    /\ \E i, h \in 1..Len(students) :
          /\ students[h].id \in Range(students[i].incompatible_with)
          /\ students[i].id # students[h].id
          /\ students[i].id \in DOMAIN result.student_assignments
          /\ students[h].id \in DOMAIN result.student_assignments
          /\ result.student_assignments[students[i].id]
                 = result.student_assignments[students[h].id]
    /\ \E j \in 1..Len(projects) :
          Len(result.assignments[projects[j].id]) < projects[j].capacity_min

\* C26: in every result of the Greedy Fallback the two maps describe one assignment: a
\* student id is in assignments[p] exactly when student_assignments maps it to p, a
\* student id occurs at most once over all the project lists, every input project id is
\* a key of assignments, and no list is longer than the capacity_max of its project.
C26_MapsAgree ==
    MockDone =>
        /\ \A pid \in DOMAIN result.assignments :
              \A sid \in {students[i].id : i \in 1..Len(students)} :
                  sid \in Range(result.assignments[pid])
                      <=> (sid \in DOMAIN result.student_assignments
                           /\ result.student_assignments[sid] = pid)
        /\ \A i \in 1..Len(students) : Occurrences(result.assignments, students[i].id) <= 1
        /\ \A j \in 1..Len(projects) :
              /\ projects[j].id \in DOMAIN result.assignments
              /\ Len(result.assignments[projects[j].id]) <= projects[j].capacity_max

\* C26, for students and projects with distinct ids:
C26_MapsAgreeDistinctIds ==
    (DistinctIds(students) /\ DistinctIds(projects)) => C26_MapsAgree

-----------------------------------------------------------------------------
(* Properties of the solve controls *)

\* the blending optimization thread is running
ThreadInFlight == optimization_thread.pc \in {"started", "built", "solved"}

\* C27: the control that starts a solve is disabled from the start of a solve worker
\* until its result or error has been handled or the solve has been stopped; in the
\* blending window the solve button is never enabled while the optimization thread runs.
C27_SolveDisabledWhileRunning == ThreadInFlight => ~solve_btn

\* C27, in the vertex cover window: the button is disabled while the worker runs or its
\* signal waits to be handled
C27_CoverSolveDisabledWhileRunning ==
    (worker.state = "started" \/ signal.kind # "none") => ~btn_solve

-----------------------------------------------------------------------------
(* Properties of the value of the maximum flow *)

\* the flow that enters node k minus the flow that leaves it, in the arc flows of as
NetInto(as, k) ==
    SumOver(FlowOf(as), ArcsInto(as, k)) - SumOver(FlowOf(as), ArcsOutOf(as, k))

\* solve_max_flow ran the engine to an optimal solution
SolvedFlow == solve_max_flow /\ message' = "" /\ raised' = ""

\* C28: the value shown as Maximum Flow is the net flow that arrives at the sink in the
\* arc flows extracted by the same solve.
C28_ValueIsNetSinkInflow ==
    [][SolvedFlow => result_label' = <<NetInto(arcs', sink_combo)>>]_vars

\* a network without parallel arcs, with distinct source and sink, no arc into the source
\* and no arc out of the sink
PlainNetwork ==
    /\ source_combo # sink_combo
    /\ \A i, j \in 1..Len(arcs) :
          (arcs[i].from_node = arcs[j].from_node /\ arcs[i].to_node = arcs[j].to_node) => i = j
    /\ \A i \in 1..Len(arcs) :
          arcs[i].to_node # source_combo /\ arcs[i].from_node # sink_combo

\* C28, for plain networks:
C28_ValueIsNetSinkInflowPlain ==
    [][(SolvedFlow /\ PlainNetwork) => result_label' = <<NetInto(arcs', sink_combo)>>]_vars

-----------------------------------------------------------------------------
(* Properties of the cancellation *)

\* C29: once stop_optimization has returned the cancelled run is over for the window: no
\* finished or error signal of the run is left to be handled (and displayed) afterwards.
C29_NothingHandledAfterStop == [][stop_optimization => thread_signals' = <<>>]_vars

-----------------------------------------------------------------------------
(* Properties of the balance of the transport demands *)

\* the sum of the declared net demands of the hubs of d
DemandSum(d) == SumSeq([h \in 1..Len(d.hubs) |-> DictGet(d.demands, d.hubs[h], 0)])

\* C30: MinCostFlowModel.solve returns status Optimal only if the declared net demands of
\* the hubs sum to zero. The declarations are the fields of the model when solve returns.
C30_OptimalOnlyIfBalanced ==
    [][\A w \in 1..Len(workers) : ReturnsOptimal(w) => DemandSum(LiveData) = 0]_vars

\* C30 with the declarations read as the data build_model read when it built the model
C30_OptimalOnlyIfBuiltBalanced ==
    [][\A w \in 1..Len(workers) : ReturnsOptimal(w) => DemandSum(model.data) = 0]_vars

-----------------------------------------------------------------------------
(* Specifications *)

AssignIdle ==
    /\ students = <<>>
    /\ projects = <<>>
    /\ pc = "idle"
    /\ InitLocals

\* the greedy fallback on its inputs
MockSolverInit == InitMock /\ CoverIdle /\ FlowIdle /\ TransportIdle /\ BlendIdle
SpecMock == MockSolverInit /\ [][NextMock]_vars

\* the exact solver on its inputs
ExactSolverInit == InitExact /\ CoverIdle /\ FlowIdle /\ TransportIdle /\ BlendIdle
SpecExact == ExactSolverInit /\ [][NextExact]_vars

\* both solvers, each on its inputs
AssignInit == (InitMock \/ InitExact) /\ CoverIdle /\ FlowIdle /\ TransportIdle /\ BlendIdle
NextAssign == NextMock \/ NextExact
SpecAssign == AssignInit /\ [][NextAssign]_vars

CoverInit == InitCover /\ AssignIdle /\ FlowIdle /\ TransportIdle /\ BlendIdle
SpecCover == CoverInit /\ [][NextCover]_vars

FlowInit == InitFlow /\ AssignIdle /\ CoverIdle /\ TransportIdle /\ BlendIdle
SpecFlow == FlowInit /\ [][NextFlow]_vars

TransportInit == TransportIdle /\ AssignIdle /\ CoverIdle /\ FlowIdle /\ BlendIdle
SpecTransport == TransportInit /\ [][NextTransport]_vars

BlendInit == InitBlend /\ AssignIdle /\ CoverIdle /\ FlowIdle /\ TransportIdle
SpecBlend == BlendInit /\ [][NextBlend]_vars

====
